---- MODULE Spec2Model ----
(***************************************************************************)
(* A model of package reqcache (github.com/n-r-w/reqcache): request-scoped *)
(* object arenas and LRU caches, keyed by a session id carried in the      *)
(* caller's context, recycled through sync.Pool when the session ends.     *)
(*                                                                         *)
(* Granularity.  Every critical section of the code is one step: the body  *)
(* of NewObject, Put and Delete runs under an exclusive lock from its map  *)
(* lookup to its return; Get and Exists run under the read lock and make   *)
(* one call into the LRU, which is serialised by the LRU's own lock.       *)
(* EndSession has two critical sections (cache map, then arena map) and    *)
(* is two steps; GetOrFetch and GetOrNew are one step per call they make.  *)
(***************************************************************************)
EXTENDS Integers, Sequences, FiniteSets, TLC

\* ------------------------------------------------------------------ bounds
\* Concurrent sessions (Spec).
NumThreads == 2      \* goroutines calling into the package
MaxSessions == 2     \* NewSession calls that succeed in one behaviour
NumKeys == 1         \* distinct cache keys
NumVals == 2         \* distinct caller-owned objects that can be Put
MaxObjSize == 1      \* largest objSize the manager is constructed with
MaxCacheSize == 1    \* largest cacheSize the manager is constructed with
MaxHeap == 1         \* fallback allocations (new(T)) in one behaviour

\* One session on its own (SpecOne).
NumKeysOne == 3      \* distinct cache keys
NumValsOne == 2      \* distinct caller-owned objects that can be Put
MaxObjSizeOne == 2   \* largest objSize the manager is constructed with
MaxCacheSizeOne == 2 \* largest cacheSize the manager is constructed with
MaxHeapOne == 2      \* fallback allocations (new(T)) in one behaviour

\* One session driven by one thread, GetOrFetch and GetOrNew under eviction.
NumKeysFetch == 3      \* distinct cache keys
NumFetched == 2        \* distinct objects the fetcher returns
MaxCacheSizeFetch == 2 \* largest cacheSize the manager is constructed with

\* One session shared by the threads.
NumKeysShared == 2     \* distinct cache keys

\* Bound of the behaviours with a logger.
MaxLogs == 3           \* calls of the logger in one behaviour

\* The arena pool of the earlier revision, driven on its own (SpecSyncPool).
MaxSize == 2           \* largest size objectSyncPool.Get is called with

Threads == 1 .. NumThreads
SessionIds == 1 .. MaxSessions
Keys == 1 .. NumKeys
KeysOne == 1 .. NumKeysOne
KeysFetch == 1 .. NumKeysFetch
KeysShared == 1 .. NumKeysShared

\* ---------------------------------------------------------------- pointers
\* A *T is <<kind, a, i>>: a slot of arena instance a at index i, the n-th
\* object allocated by new(T), a caller-owned object, or nil.
Nil == <<"nil", 0, 0>>
SlotPtr(a, i) == <<"slot", a, i>>
HeapPtr(n) == <<"heap", n, 0>>
UserPtr(n) == <<"usr", n, 0>>
UserPtrs == {UserPtr(n) : n \in 1 .. NumVals}
UserPtrsOne == {UserPtr(n) : n \in 1 .. NumValsOne}
\* The objects a fetcher returns, told apart from the ones the caller Puts.
FetchPtr(n) == <<"fetch", n, 0>>
FetchPtrs == {FetchPtr(n) : n \in 1 .. NumFetched}

\* ----------------------------------------------------------------- helpers
RemoveAt(seq, i) == SubSeq(seq, 1, i - 1) \o SubSeq(seq, i + 1, Len(seq))

\* The index of key k in a sequence of <<key, value>> entries, 0 when absent.
IndexOf(items, k) ==
    IF \E i \in 1 .. Len(items) : items[i][1] = k
    THEN CHOOSE i \in 1 .. Len(items) : items[i][1] = k
    ELSE 0

\* ------------------------------------------------ lru.Cache (golang-lru/v2)
\* An LRU instance is [size, items]: items are <<key, value>> entries, the
\* most recently used first.
NewLru(size) == [size |-> size, items |-> <<>>]

LruContains(c, k) == IndexOf(c.items, k) # 0

LruPeek(c, k) == IF LruContains(c, k) THEN c.items[IndexOf(c.items, k)][2] ELSE Nil

\* Get moves the entry to the front.
LruGet(c, k) ==
    IF LruContains(c, k)
    THEN [c EXCEPT !.items = <<c.items[IndexOf(c.items, k)]>> \o RemoveAt(c.items, IndexOf(c.items, k))]
    ELSE c

\* Add with a fault: a full cache drops its newest entry, not its oldest.
LruAddDropNewest(c, k, v) ==
    IF LruContains(c, k)
    THEN [c EXCEPT !.items = <<(<<k, v>>)>> \o RemoveAt(c.items, IndexOf(c.items, k))]
    ELSE IF Len(c.items) + 1 > c.size
         THEN [c EXCEPT !.items = <<(<<k, v>>)>> \o SubSeq(c.items, 2, Len(c.items))]
         ELSE [c EXCEPT !.items = <<(<<k, v>>)>> \o c.items]

\* Add with a fault: an existing entry is moved to the front with the value
\* it has.
LruAddKeepFirst(c, k, v) ==
    IF LruContains(c, k)
    THEN [c EXCEPT !.items = <<c.items[IndexOf(c.items, k)]>> \o RemoveAt(c.items, IndexOf(c.items, k))]
    ELSE IF Len(c.items) + 1 > c.size
         THEN [c EXCEPT !.items = <<(<<k, v>>)>> \o SubSeq(c.items, 1, Len(c.items) - 1)]
         ELSE [c EXCEPT !.items = <<(<<k, v>>)>> \o c.items]

\* Add with a fault: a key already present is added as a new one.
LruAddAsNew(c, k, v) ==
    IF Len(c.items) + 1 > c.size
    THEN [c EXCEPT !.items = <<(<<k, v>>)>> \o SubSeq(c.items, 1, Len(c.items) - 1)]
    ELSE [c EXCEPT !.items = <<(<<k, v>>)>> \o c.items]

\* Add overwrites an existing entry and moves it to the front; a new entry
\* goes to the front and, when the cache then exceeds its size, the oldest
\* entry (the last) is removed.
LruAdd(c, k, v) ==
    IF LruContains(c, k)
    THEN [c EXCEPT !.items = <<(<<k, v>>)>> \o RemoveAt(c.items, IndexOf(c.items, k))]
    ELSE IF Len(c.items) + 1 > c.size
         THEN [c EXCEPT !.items = <<(<<k, v>>)>> \o SubSeq(c.items, 1, Len(c.items) - 1)]
         ELSE [c EXCEPT !.items = <<(<<k, v>>)>> \o c.items]

\* Remove with a fault: the cache is emptied when the key is found.
LruRemoveAll(c, k) ==
    IF LruContains(c, k)
    THEN [c EXCEPT !.items = <<>>]
    ELSE c

LruRemove(c, k) ==
    IF LruContains(c, k)
    THEN [c EXCEPT !.items = RemoveAt(c.items, IndexOf(c.items, k))]
    ELSE c

LruPurge(c) == [c EXCEPT !.items = <<>>]

\* --------------------------------------------------------------- cachePool
\* lru.New(size): the error it returns.
NewLruErr(size) == IF size <= 0 THEN "must provide a positive size" ELSE "nil"

\* sync.Pool.New of the cache pool: lru.New(size).
newPoolWrapper(size) == NewLru(size)

\* sync.Pool.New of the cache pool panics with the error of lru.New.
newPoolWrapperPanics(size) == NewLruErr(size) # "nil"

\* cachePool.Put with a fault: the instance enters the pool as it is.
cachePoolPutAsIs(c) == c

\* cachePool.Put: the instance as it enters the pool.
cachePoolPut(c) == LruPurge(c)

\* --------------------------------------------------------------- objectPool
\* An arena is [data, index]: data holds T values (0 is the zero value),
\* index is the next free slot, counted from 0 as in the code.
newObjectPool(size) == [data |-> [i \in 1 .. size |-> 0], index |-> 0]

\* objectPool.get with a fault: the index stays where it is.
objectPoolGetStuck(p) ==
    IF p.index >= Len(p.data)
    THEN [pool |-> p, hit |-> FALSE, slot |-> 0]
    ELSE [pool |-> p, hit |-> TRUE, slot |-> p.index]

\* objectPool.get with a fault: the index advances on a fallback allocation
\* as well.
objectPoolGetPast(p) ==
    IF p.index >= Len(p.data)
    THEN [pool |-> [p EXCEPT !.index = p.index + 1], hit |-> FALSE, slot |-> 0]
    ELSE [pool |-> [p EXCEPT !.index = p.index + 1], hit |-> TRUE, slot |-> p.index]

\* objectPool.get: the arena afterwards, whether a slot was handed out, and
\* which one.
objectPoolGet(p) ==
    IF p.index >= Len(p.data)
    THEN [pool |-> p, hit |-> FALSE, slot |-> 0]
    ELSE [pool |-> [p EXCEPT !.index = p.index + 1], hit |-> TRUE, slot |-> p.index]

\* objectSyncPool.Get with a fault: the index is reset, the slots are not.
objectSyncPoolGetDirty(o) == [o EXCEPT !.index = 0]

\* objectSyncPool.Get: the instance taken from the pool, reset.
objectSyncPoolGet(o) == [o EXCEPT !.index = 0, !.data = [i \in 1 .. Len(o.data) |-> 0]]

\* objectSyncPool.Put: the instance as it enters the pool.
objectSyncPoolPut(o) == o

\* ------------------------------------------------------------------- state
VARIABLES
    objSize,      \* ReqCache.objSize
    cacheSize,    \* ReqCache.cacheSize
    op,           \* ReqCache.op: [logger, name], logger FALSE for a nil logger
    newErr,       \* the error New returned, "nil" when it returned a manager
    requestID,    \* the package-level counter
    ctx,          \* ctx[t]: the session id thread t's context carries, 0 for none
    pc,           \* pc[t]: where thread t is inside a multi-step call
    loc,          \* loc[t]: thread t's locals inside a multi-step call
    data,         \* ReqCache.data: session id -> lru instance, 0 for no entry
    lrus,         \* every lru instance constructed so far
    dataPool,     \* ReqCache.dataPool: how often each instance is in the pool
    objects,      \* ReqCache.objects: session id -> arena instance, 0 for no entry
    arenas,       \* every arena instance constructed so far
    objectsPool,  \* ReqCache.objectsPool: how often each instance is in the pool
    heapNext,     \* objects allocated by new(T) so far
    hist          \* history: the ids minted, and per session what was called

vars == <<objSize, cacheSize, op, newErr, requestID, ctx, pc, loc, data, lrus, dataPool, objects,
          arenas, objectsPool, heapNext, hist>>

cacheVars == <<data, lrus, dataPool>>
arenaVars == <<objects, arenas, objectsPool, heapNext>>
config == <<objSize, cacheSize, op, newErr>>

\* A thread's locals inside GetOrFetch and GetOrNew.
L0 == [key |-> 0, val |-> Nil, op |-> ""]

\* ----------------------------------------------------------------- history
\* hist.minted: the ids NewSession returned, in order.  hist.purged: the
\* cache instances that an EndSession handed to the pool with entries in them.  hist.s[s]: what the caller of session s has done so
\* far.  hist.log: what the logger has counted.  History is written by the
\* steps and read by the properties; the only guards that read it are
\* MayStart and MayLog.
H0 == [expect |-> <<>>,      \* the <<k, v>> Put and not deleted since, the last
                             \* Put or found by Get first; at most cacheSize,
                             \* the others dropped from the end; none once
                             \* EndSession ran
       everPut |-> {},       \* keys ever Put
       ended |-> FALSE,      \* EndSession returned, no other call since
       endedNoPut |-> FALSE, \* EndSession returned, no Put since
       endCalled |-> FALSE,  \* EndSession was called
       nNew |-> 0,           \* NewObject calls, until EndSession is called
       got |-> {},           \* pointers NewObject returned, until then
       fetched |-> {},       \* the <<k, v>> a GetOrFetch stored, with no
                             \* Delete(k), Put(k, _) or EndSession since
       kept |-> {},          \* those of them not evicted since
       failed |-> FALSE,     \* the last call returned its callback's error
       race |-> <<>>]        \* the <<k, v>> stored, in order, by two GetOrFetch
                             \* of k that were both past their miss, with no
                             \* other Put, Delete or EndSession since

\* The history kept of a session no context carries any more.
Dead(h) == [H0 EXCEPT !.ended = h.ended, !.endCalled = h.endCalled]

\* The expected content after Put(k, v) with capacity cap.
ExpectPut(e, k, v, cap) ==
    LET Other(x) == x[1] # k
        rest == SelectSeq(e, Other)
    IN  <<(<<k, v>>)>> \o (IF Len(rest) >= cap THEN SubSeq(rest, 1, cap - 1) ELSE rest)

\* The pairs of ps with another key than k.
WithoutKey(ps, k) == {p \in ps : p[1] # k}

\* The history after Put(k, v) with capacity cap, n calls of GetOrFetch(k)
\* of the session being past their miss.
PutHist(h, k, v, cap, n) ==
    LET e == ExpectPut(h.expect, k, v, cap)
        new == IF v[1] = "fetch" THEN {<<k, v>>} ELSE {}
        race == IF v[1] # "fetch" THEN <<>>
                ELSE IF n >= 2 THEN <<(<<k, v>>)>>
                ELSE IF n = 1 /\ Len(h.race) = 1
                     THEN IF h.race[1][1] = k THEN Append(h.race, <<k, v>>) ELSE <<>>
                     ELSE <<>>
    IN  [h EXCEPT !.expect = e,
                  !.race = race,
                  !.everPut = @ \cup {k},
                  !.ended = FALSE,
                  !.endedNoPut = FALSE,
                  !.failed = FALSE,
                  !.fetched = WithoutKey(@, k) \cup new,
                  !.kept = {p \in WithoutKey(@, k) \cup new :
                               \E i \in 1 .. Len(e) : e[i][1] = p[1]}]

\* The expected content after Get(k).
ExpectGet(e, k) ==
    LET Other(x) == x[1] # k
        Same(x) == x[1] = k
    IN  SelectSeq(e, Same) \o SelectSeq(e, Other)

\* The expected content after Delete(k).
ExpectDelete(e, k) ==
    LET Other(x) == x[1] # k
    IN  SelectSeq(e, Other)

\* Any call of session s other than Put and EndSession.
Called(h) == [h EXCEPT !.ended = FALSE, !.failed = FALSE]

\* ------------------------------------------------------------------ logger
\* The logger the caller hands to WithLogger counts what it is told, as the
\* one of the tests does: hist.log is its state.
Log0 == [name |-> "", objHit |-> 0, objMiss |-> 0, cacheHit |-> 0, cacheMiss |-> 0]

LogObjectPoolHitRatio(l, name, hit) ==
    [l EXCEPT !.name = name,
              !.objHit = IF hit THEN @ + 1 ELSE @,
              !.objMiss = IF hit THEN @ ELSE @ + 1]

LogCacheHitRatio(l, name, hit) ==
    [l EXCEPT !.name = name,
              !.cacheHit = IF hit THEN @ + 1 ELSE @,
              !.cacheMiss = IF hit THEN @ ELSE @ + 1]

\* The calls of the logger so far.
LogCalls(l) == l.objHit + l.objMiss + l.cacheHit + l.cacheMiss

\* The deferred call in Get and Exists with a fault: it is not deferred, and
\* found is what it is on entry.
LogCacheEarly(l, found) ==
    IF op.logger THEN LogCacheHitRatio(l, op.name, FALSE) ELSE l

\* The deferred call in Get and Exists: the logger after the call returned
\* found, whatever else it returned.
LogCache(l, found) ==
    IF op.logger THEN LogCacheHitRatio(l, op.name, found) ELSE l

\* The deferred call in objectPool.get with a fault: it is not deferred, and
\* hit is what it is on entry.
LogObjectEarly(l, hit) ==
    IF op.logger THEN LogObjectPoolHitRatio(l, op.name, FALSE) ELSE l

\* The deferred call in objectPool.get: the pool has the name and the logger
\* New handed to newObjectSyncPool.
LogObject(l, hit) ==
    IF op.logger THEN LogObjectPoolHitRatio(l, op.name, hit) ELSE l

\* ---------------------------------------------------------------- sync.Pool
\* A pool is a bag of instance ids.  sync.Pool.Get returns some instance that
\* is in the pool, or a new one from New; n instances exist, and a new one
\* gets the next id.  An instance is in a map, in the pool, or dropped by the
\* pool and never seen again, and a session has one map entry at most: the
\* instances that are not dropped are no more than the sessions, and the
\* ids are those of the sessions.
PoolGet(pool, n) ==
    {i \in 1 .. n : pool[i] > 0} \cup (IF n < requestID THEN {n + 1} ELSE {})

PoolTake(pool, i) == IF pool[i] > 0 THEN [pool EXCEPT ![i] = @ - 1] ELSE pool

PoolPut(pool, i) == [pool EXCEPT ![i] = @ + 1]

\* cachePool.Get: the instance i as it leaves the pool.
cachePoolGet(i) == IF i > Len(lrus) THEN newPoolWrapper(cacheSize) ELSE lrus[i]

\* objectSyncPool.Get on instance i.
objectsPoolGet(i) ==
    objectSyncPoolGet(IF i > Len(arenas) THEN newObjectPool(objSize) ELSE arenas[i])

\* The heap of instances with instance i set to v (appended when i is new).
Store(heap, i, v) == IF i > Len(heap) THEN Append(heap, v) ELSE [heap EXCEPT ![i] = v]

\* -------------------------------------------------------------------- Init
\* The options New starts from, and the ones WithLogger(name, logger) sets.
NoOptions == [logger |-> FALSE, name |-> ""]

Names == {"", "reqcache"}

Options == [logger : BOOLEAN, name : Names]

\* validate with a fault: the name is not looked at.
validateSizes(obj, cache, o) ==
    IF cache <= 0 THEN "cache size must be greater than 0"
    ELSE IF obj <= 0 THEN "object size must be greater than 0"
    ELSE "nil"

\* ReqCache.validate: the error it returns.
validate(obj, cache, o) ==
    IF cache <= 0 THEN "cache size must be greater than 0"
    ELSE IF obj <= 0 THEN "object size must be greater than 0"
    ELSE IF o.logger /\ o.name = "" THEN "operation name must be set when logger is provided"
    ELSE "nil"

\* The state after New(objSize, cacheSize, opts...) returned, with the
\* arguments drawn from objs, caches and ops: the manager when newErr is
\* "nil", and no manager otherwise.
New(objs, caches, ops) ==
    /\ objSize \in objs
    /\ cacheSize \in caches
    /\ op \in ops
    /\ newErr = validate(objSize, cacheSize, op)
    /\ requestID = 0
    /\ ctx = [t \in Threads |-> 0]
    /\ pc = [t \in Threads |-> "idle"]
    /\ loc = [t \in Threads |-> L0]
    /\ data = [s \in SessionIds |-> 0]
    /\ lrus = <<>>
    /\ dataPool = [i \in SessionIds |-> 0]
    /\ objects = [s \in SessionIds |-> 0]
    /\ arenas = <<>>
    /\ objectsPool = [i \in SessionIds |-> 0]
    /\ heapNext = 0
    /\ hist = [minted |-> <<>>, purged |-> {}, log |-> Log0,
               s |-> [s \in SessionIds |-> H0]]

\* The state after New(objSize, cacheSize) succeeded, with the sizes up to
\* maxObj and maxCache.
Setup(maxObj, maxCache) == New(1 .. maxObj, 1 .. maxCache, {NoOptions})

Init == Setup(MaxObjSize, MaxCacheSize)

InitOne == Setup(MaxObjSizeOne, MaxCacheSizeOne)

\* --------------------------------------------------------- session registry
\* InContext with a fault: the value is never found.
InContextNever(c) == FALSE

InContext(c) == c # 0

\* A context is the session id it carries, 0 when it carries none, and
\* NilCtx is the nil context.
NilCtx == 0 - 1

\* fromContext with a fault: a nil context is asked for its value.
fromContextNoNil(c) ==
    IF c = NilCtx THEN [id |-> 0, err |-> "panic: nil pointer dereference"]
    ELSE IF c = 0 THEN [id |-> 0, err |-> "ErrNoSessionInContext"]
    ELSE [id |-> c, err |-> "nil"]

\* fromContext with a fault: a session on which EndSession was called is
\* not resolved any more.
fromContextEnded(c) ==
    IF c = NilCtx THEN [id |-> 0, err |-> "ErrNoSessionInContext"]
    ELSE IF c = 0 THEN [id |-> 0, err |-> "ErrNoSessionInContext"]
    ELSE IF hist.s[c].endCalled THEN [id |-> 0, err |-> "ErrNoSessionInContext"]
    ELSE [id |-> c, err |-> "nil"]

fromContext(c) ==
    IF c = NilCtx THEN [id |-> 0, err |-> "ErrNoSessionInContext"]
    ELSE IF c = 0 THEN [id |-> 0, err |-> "ErrNoSessionInContext"]
    ELSE [id |-> c, err |-> "nil"]

\* A call that fails to resolve its session returns the error and does nothing.
NoSession == UNCHANGED vars

\* Get and Exists that fail to resolve their session return found = false,
\* and the deferred call of the logger runs.
NoSessionLogged ==
    /\ hist' = [hist EXCEPT !.log = LogCache(@, FALSE)]
    /\ UNCHANGED <<config, requestID, ctx, pc, loc, cacheVars, arenaVars>>

\* What NewSession(c) returns.
NewSessionErr(c) == IF InContext(c) THEN "ErrSessionAlreadyExists" ELSE "nil"

\* NewSession with a fault: the counter is read and not advanced.
NewSessionStale(t, c) ==
    /\ pc[t] = "idle"
    /\ IF InContext(c)
       THEN UNCHANGED <<requestID, ctx, hist>>
       ELSE /\ requestID' = requestID
            /\ ctx' = [ctx EXCEPT ![t] = requestID + 1]
            /\ hist' = [hist EXCEPT !.minted = Append(@, requestID + 1),
                                    !.s = IF ctx[t] = 0 THEN @
                                          ELSE [@ EXCEPT ![ctx[t]] = Dead(@)]]
    /\ UNCHANGED <<config, pc, loc, cacheVars, arenaVars>>

\* The caller goes on with a context c that carries no session.
Drop(t, c) ==
    /\ pc[t] = "idle"
    /\ ctx[t] > 0
    /\ c \in {0, NilCtx}
    /\ ctx' = [ctx EXCEPT ![t] = c]
    /\ UNCHANGED <<config, requestID, pc, loc, cacheVars, arenaVars, hist>>

\* NewSession(c), called by thread t with c the background context (0) or the
\* context t already has; t goes on with the context returned.
NewSession(t, c) ==
    /\ pc[t] = "idle"
    /\ IF InContext(c)
       THEN UNCHANGED <<requestID, ctx, hist>>
       ELSE /\ requestID' = requestID + 1
            /\ ctx' = [ctx EXCEPT ![t] = requestID + 1]
            /\ hist' = [hist EXCEPT !.minted = Append(@, requestID + 1),
                                    !.s = IF ctx[t] <= 0 THEN @
                                          ELSE [@ EXCEPT ![ctx[t]] = Dead(@)]]
    /\ UNCHANGED <<config, pc, loc, cacheVars, arenaVars>>

\* -------------------------------------------------------------- cache calls
\* The content of session s's cache, empty when s has no entry.
CacheOf(s) == IF data[s] = 0 THEN <<>> ELSE lrus[data[s]].items

\* The instances Put may end up with for session s: its entry, or what the
\* pool returns.
PutChoices(s) == IF data[s] # 0 THEN {data[s]} ELSE PoolGet(dataPool, Len(lrus))

\* The cache Put adds to: the session's, or the one just attached.
CacheFor(s, c) == IF data[s] # 0 THEN lrus[c] ELSE cachePoolGet(c)

\* The calls of GetOrFetch(k) of session s that missed and have not returned.
InFlight(s, k) ==
    Cardinality({t \in Threads : ctx[t] = s /\ pc[t] = "GetOrFetch" /\ loc[t].key = k})

\* Put with a fault: the instance attached is left in the pool as well.
DoPutShared(s, c, k, v) ==
    /\ data' = [data EXCEPT ![s] = c]
    /\ dataPool' = dataPool
    /\ lrus' = Store(lrus, c, LruAdd(CacheFor(s, c), k, v))
    /\ hist' = [hist EXCEPT !.s[s] =
                  [@ EXCEPT !.expect = ExpectPut(@, k, v, cacheSize),
                            !.everPut = @ \cup {k},
                            !.ended = FALSE,
                            !.endedNoPut = FALSE]]

\* Put with a fault: the call that attaches the cache returns without adding.
DoPutAttachOnly(s, c, k, v) ==
    /\ data' = [data EXCEPT ![s] = c]
    /\ dataPool' = IF data[s] # 0 THEN dataPool ELSE PoolTake(dataPool, c)
    /\ lrus' = Store(lrus, c, IF data[s] # 0 THEN LruAdd(lrus[c], k, v) ELSE cachePoolGet(c))
    /\ hist' = [hist EXCEPT !.s[s] =
                  [@ EXCEPT !.expect = ExpectPut(@, k, v, cacheSize),
                            !.everPut = @ \cup {k},
                            !.ended = FALSE,
                            !.endedNoPut = FALSE]]

\* The critical section of m.Put(ctx, k, v) for session s, c the instance.
DoPut(s, c, k, v) ==
    /\ data' = [data EXCEPT ![s] = c]
    /\ dataPool' = IF data[s] # 0 THEN dataPool ELSE PoolTake(dataPool, c)
    /\ lrus' = Store(lrus, c, LruAdd(CacheFor(s, c), k, v))
    /\ hist' = [hist EXCEPT !.s[s] = PutHist(@, k, v, cacheSize, InFlight(s, k))]

\* m.dataPool.Get() panics when the pool has to construct instance c and
\* lru.New fails.
PutPanics(s, c) == data[s] = 0 /\ c > Len(lrus) /\ newPoolWrapperPanics(cacheSize)

Put(t, k, v) ==
    /\ pc[t] = "idle"
    /\ IF fromContext(ctx[t]).err # "nil"
       THEN NoSession
       ELSE /\ \E c \in PutChoices(ctx[t]) :
                  IF PutPanics(ctx[t], c)
                  THEN /\ pc' = [pc EXCEPT ![t] = "panic"]
                       /\ UNCHANGED <<cacheVars, hist>>
                  ELSE /\ DoPut(ctx[t], c, k, v)
                       /\ pc' = pc
            /\ UNCHANGED <<config, requestID, ctx, loc, arenaVars>>

\* Get with a fault: the entry is read and not moved to the front.
DoGetPeek(s, k) ==
    /\ hist' = [hist EXCEPT !.s[s] = [Called(@) EXCEPT !.expect = ExpectGet(@, k)]]
    /\ UNCHANGED <<data, lrus, dataPool>>

\* Get with a fault: a session that has no cache is given one from the pool.
DoGetAttach(s, k) ==
    /\ IF data[s] # 0
       THEN /\ lrus' = [lrus EXCEPT ![data[s]] = LruGet(@, k)]
            /\ UNCHANGED <<data, dataPool>>
       ELSE \E c \in PoolGet(dataPool, Len(lrus)) :
               /\ data' = [data EXCEPT ![s] = c]
               /\ dataPool' = PoolTake(dataPool, c)
               /\ lrus' = Store(lrus, c, cachePoolGet(c))
    /\ hist' = [hist EXCEPT !.s[s] = [Called(@) EXCEPT !.expect = ExpectGet(@, k)],
                            !.log = LogCache(@, data[s] # 0 /\ LruContains(lrus[data[s]], k))]

\* The critical section of m.Get(ctx, k) for session s.
DoGet(s, k) ==
    /\ lrus' = IF data[s] = 0 THEN lrus ELSE [lrus EXCEPT ![data[s]] = LruGet(@, k)]
    /\ hist' = [hist EXCEPT !.s[s] = [Called(@) EXCEPT !.expect = ExpectGet(@, k)],
                            !.log = LogCache(@, data[s] # 0 /\ LruContains(lrus[data[s]], k))]
    /\ UNCHANGED <<data, dataPool>>

\* What m.Put(ctx, k, v) and m.Get(ctx, k) return as error, c the session id
\* the context carries.
PutErr(c) == fromContext(c).err

GetErr(c) == fromContext(c).err

\* What m.Get(ctx, k) returns for session s: found and obj.
GetFound(s, k) == data[s] # 0 /\ LruContains(lrus[data[s]], k)

GetVal(s, k) == IF data[s] # 0 THEN LruPeek(lrus[data[s]], k) ELSE Nil

Get(t, k) ==
    /\ pc[t] = "idle"
    /\ IF fromContext(ctx[t]).err # "nil"
       THEN NoSessionLogged
       ELSE /\ DoGet(ctx[t], k)
            /\ UNCHANGED <<config, requestID, ctx, pc, loc, arenaVars>>

\* What m.Exists(ctx, k) returns for session s.
ExistsFound(s, k) == data[s] # 0 /\ LruContains(lrus[data[s]], k)

\* Exists with a fault: the entry found is moved to the front, as Get does.
DoExistsRefresh(s, k) ==
    /\ hist' = [hist EXCEPT !.s[s] = Called(@),
                            !.log = LogCache(@, ExistsFound(s, k))]
    /\ lrus' = IF data[s] = 0 THEN lrus ELSE [lrus EXCEPT ![data[s]] = LruGet(@, k)]
    /\ UNCHANGED <<data, dataPool>>

\* The critical section of m.Exists(ctx, k) for session s.
DoExists(s, k) ==
    /\ hist' = [hist EXCEPT !.s[s] = Called(@),
                            !.log = LogCache(@, ExistsFound(s, k))]
    /\ UNCHANGED cacheVars

Exists(t, k) ==
    /\ pc[t] = "idle"
    /\ IF fromContext(ctx[t]).err # "nil"
       THEN NoSessionLogged
       ELSE /\ DoExists(ctx[t], k)
            /\ UNCHANGED <<config, requestID, ctx, pc, loc, arenaVars>>

\* Delete with a fault: a session that has no cache is given one from the
\* pool.
DeleteAttach(t, k) ==
    /\ pc[t] = "idle"
    /\ IF fromContext(ctx[t]).err # "nil"
       THEN NoSession
       ELSE LET s == ctx[t] IN
            /\ IF data[s] # 0
               THEN /\ lrus' = [lrus EXCEPT ![data[s]] = LruRemove(@, k)]
                    /\ UNCHANGED <<data, dataPool>>
               ELSE \E c \in PoolGet(dataPool, Len(lrus)) :
                       /\ data' = [data EXCEPT ![s] = c]
                       /\ dataPool' = PoolTake(dataPool, c)
                       /\ lrus' = Store(lrus, c, cachePoolGet(c))
            /\ hist' = [hist EXCEPT !.s[s] = [Called(@) EXCEPT !.expect = ExpectDelete(@, k),
                                                               !.fetched = WithoutKey(@, k),
                                                               !.kept = WithoutKey(@, k),
                                                               !.race = <<>>]]
            /\ UNCHANGED <<config, requestID, ctx, pc, loc, arenaVars>>

\* What m.Delete(ctx, k) returns for session s.
DeleteRemoved(s, k) == data[s] # 0 /\ LruContains(lrus[data[s]], k)

\* The critical section of m.Delete(ctx, k) for session s.
DoDelete(s, k) ==
    /\ lrus' = IF data[s] = 0 THEN lrus ELSE [lrus EXCEPT ![data[s]] = LruRemove(@, k)]
    /\ hist' = [hist EXCEPT !.s[s] = [Called(@) EXCEPT !.expect = ExpectDelete(@, k),
                                                       !.fetched = WithoutKey(@, k),
                                                       !.kept = WithoutKey(@, k),
                                                       !.race = <<>>]]
    /\ UNCHANGED <<data, dataPool>>

Delete(t, k) ==
    /\ pc[t] = "idle"
    /\ IF fromContext(ctx[t]).err # "nil"
       THEN NoSession
       ELSE /\ DoDelete(ctx[t], k)
            /\ UNCHANGED <<config, requestID, ctx, pc, loc, arenaVars>>

\* -------------------------------------------------------------- arena calls
\* The instances NewObject may end up with for session s.
NewObjectChoices(s) ==
    IF objects[s] # 0 THEN {objects[s]} ELSE PoolGet(objectsPool, Len(arenas))

\* The arena NewObject takes the object from: the session's, or the one just
\* attached.
ArenaFor(s, a) == IF objects[s] # 0 THEN arenas[a] ELSE objectsPoolGet(a)

\* The cursor of session s's arena, 0 when s has no entry.
CursorOf(s) == IF objects[s] = 0 THEN 0 ELSE arenas[objects[s]].index

\* What m.NewObject(ctx) returns for session s, a the instance.
NewObjectPtr(s, a) ==
    LET r == objectPoolGet(ArenaFor(s, a))
    IN  IF r.hit THEN SlotPtr(a, r.slot) ELSE HeapPtr(heapNext + 1)

\* The value of the object p points to; an object from new(T) is zero until
\* its caller writes to it, and nothing in the package reads it.
Deref(s, a, p) == IF p[1] = "slot" THEN ArenaFor(s, a).data[p[3] + 1] ELSE 0

\* NewObject with a fault: the instance attached is left in the pool as well.
DoNewObjectShared(s, a) ==
    LET r == objectPoolGet(ArenaFor(s, a)) IN
    /\ objects' = [objects EXCEPT ![s] = a]
    /\ objectsPool' = objectsPool
    /\ arenas' = Store(arenas, a, r.pool)
    /\ heapNext' = IF r.hit THEN heapNext ELSE heapNext + 1
    /\ hist' = [hist EXCEPT !.s[s] =
                  IF @.endCalled THEN Called(@)
                  ELSE [Called(@) EXCEPT !.nNew = @ + 1,
                                         !.got = @ \cup {NewObjectPtr(s, a)}]]

\* The critical section of m.NewObject(ctx) for session s, a the instance.
DoNewObject(s, a) ==
    LET r == objectPoolGet(ArenaFor(s, a)) IN
    /\ objects' = [objects EXCEPT ![s] = a]
    /\ objectsPool' = IF objects[s] # 0 THEN objectsPool ELSE PoolTake(objectsPool, a)
    /\ arenas' = Store(arenas, a, r.pool)
    /\ heapNext' = IF r.hit THEN heapNext ELSE heapNext + 1
    /\ hist' = [hist EXCEPT !.s[s] =
                  IF @.endCalled THEN Called(@)
                  ELSE [Called(@) EXCEPT !.nNew = @ + 1,
                                         !.got = @ \cup {NewObjectPtr(s, a)}],
                            !.log = LogObject(@, r.hit)]

NewObject(t) ==
    /\ pc[t] = "idle"
    /\ IF fromContext(ctx[t]).err # "nil"
       THEN NoSession
       ELSE /\ \E a \in NewObjectChoices(ctx[t]) : DoNewObject(ctx[t], a)
            /\ UNCHANGED <<config, requestID, ctx, pc, loc, cacheVars>>

\* The arenas with v written through the pointer p.
WriteTo(p, v) ==
    IF p[1] = "slot" THEN [arenas EXCEPT ![p[2]].data[p[3] + 1] = v] ELSE arenas

\* The caller of thread t's session writes to an object NewObject returned
\* to that session: slot i of the arena the session has.
Write(t, i) ==
    /\ pc[t] = "idle"
    /\ ctx[t] > 0
    /\ objects[ctx[t]] # 0
    /\ i < arenas[objects[ctx[t]]].index
    /\ arenas' = WriteTo(SlotPtr(objects[ctx[t]], i), 1)
    /\ UNCHANGED <<config, requestID, ctx, pc, loc, cacheVars, objects, objectsPool,
                   heapNext, hist>>

\* -------------------------------------------------------------- EndSession
\* EndSession with a fault: the cache is left where it is.
EndSessionDataKeep(t) ==
    /\ pc[t] = "idle"
    /\ IF fromContext(ctx[t]).err # "nil"
       THEN NoSession
       ELSE /\ pc' = [pc EXCEPT ![t] = "EndSession"]
            /\ hist' = [hist EXCEPT !.s[ctx[t]] = [@ EXCEPT !.expect = <<>>,
                                                            !.endCalled = TRUE,
                                                            !.nNew = 0,
                                                            !.got = {}]]
            /\ UNCHANGED <<config, requestID, ctx, loc, cacheVars, arenaVars>>

\* EndSession with a fault: the cache goes to the pool and stays in the map.
EndSessionDataNoDelete(t) ==
    /\ pc[t] = "idle"
    /\ IF fromContext(ctx[t]).err # "nil"
       THEN NoSession
       ELSE LET s == ctx[t]
                v == data[s] IN
            /\ pc' = [pc EXCEPT ![t] = "EndSession"]
            /\ IF v # 0
               THEN /\ lrus' = [lrus EXCEPT ![v] = cachePoolPut(@)]
                    /\ dataPool' = PoolPut(dataPool, v)
                    /\ UNCHANGED data
               ELSE UNCHANGED cacheVars
            /\ hist' = [hist EXCEPT !.s[s] = [@ EXCEPT !.expect = <<>>,
                                                       !.endCalled = TRUE,
                                                       !.nNew = 0,
                                                       !.got = {}]]
            /\ UNCHANGED <<config, requestID, ctx, loc, arenaVars>>

\* EndSession with a fault: the cache of every session is removed.
EndSessionDataAll(t) ==
    /\ pc[t] = "idle"
    /\ IF fromContext(ctx[t]).err # "nil"
       THEN NoSession
       ELSE LET s == ctx[t]
                v == data[s]
                Mapped(i) == \E x \in SessionIds : data[x] = i IN
            /\ pc' = [pc EXCEPT ![t] = "EndSession"]
            /\ data' = [x \in SessionIds |-> 0]
            /\ lrus' = [i \in 1 .. Len(lrus) |-> IF Mapped(i) THEN cachePoolPut(lrus[i]) ELSE lrus[i]]
            /\ dataPool' = [i \in SessionIds |-> IF Mapped(i) THEN dataPool[i] + 1 ELSE dataPool[i]]
            /\ hist' = [hist EXCEPT
                          !.purged = IF v # 0 /\ lrus[v].items # <<>> THEN @ \cup {v} ELSE @,
                          !.s[s] = [@ EXCEPT !.expect = <<>>,
                                             !.endCalled = TRUE,
                                             !.nNew = 0,
                                             !.got = {},
                                             !.fetched = {},
                                             !.kept = {},
                                             !.failed = FALSE,
                                             !.race = <<>>]]
            /\ UNCHANGED <<config, requestID, ctx, loc, arenaVars>>

\* The first critical section of m.EndSession(ctx) for session s: the cache
\* map.
DoEndSessionData(s) ==
    LET v == data[s] IN
    /\ IF v # 0
       THEN /\ data' = [data EXCEPT ![s] = 0]
            /\ lrus' = [lrus EXCEPT ![v] = cachePoolPut(@)]
            /\ dataPool' = PoolPut(dataPool, v)
       ELSE UNCHANGED cacheVars
    /\ hist' = [hist EXCEPT
                  !.purged = IF v # 0 /\ lrus[v].items # <<>> THEN @ \cup {v} ELSE @,
                  !.s[s] = [@ EXCEPT !.expect = <<>>,
                                     !.endCalled = TRUE,
                                     !.nNew = 0,
                                     !.got = {},
                                     !.fetched = {},
                                     !.kept = {},
                                     !.failed = FALSE,
                                     !.race = <<>>]]

\* m.EndSession(ctx), first critical section: the cache map.
EndSessionData(t) ==
    /\ pc[t] = "idle"
    /\ IF fromContext(ctx[t]).err # "nil"
       THEN NoSession
       ELSE /\ pc' = [pc EXCEPT ![t] = "EndSession"]
            /\ DoEndSessionData(ctx[t])
            /\ UNCHANGED <<config, requestID, ctx, loc, arenaVars>>

\* EndSession with a fault: the arena is left where it is.
EndSessionObjectsKeep(t) ==
    /\ pc[t] = "EndSession"
    /\ pc' = [pc EXCEPT ![t] = "idle"]
    /\ hist' = [hist EXCEPT !.s[ctx[t]] = [@ EXCEPT !.ended = TRUE, !.endedNoPut = TRUE]]
    /\ UNCHANGED <<config, requestID, ctx, loc, cacheVars, arenaVars>>

\* The second critical section of m.EndSession(ctx) for session s: the arena
\* map.
DoEndSessionObjects(s) ==
    LET v == objects[s] IN
    /\ IF v # 0
       THEN /\ objects' = [objects EXCEPT ![s] = 0]
            /\ arenas' = [arenas EXCEPT ![v] = objectSyncPoolPut(@)]
            /\ objectsPool' = PoolPut(objectsPool, v)
            /\ UNCHANGED heapNext
       ELSE UNCHANGED arenaVars
    /\ hist' = [hist EXCEPT !.s[s] = [@ EXCEPT !.ended = TRUE, !.endedNoPut = TRUE]]

\* m.EndSession(ctx), second critical section: the arena map; then it returns.
EndSessionObjects(t) ==
    /\ pc[t] = "EndSession"
    /\ pc' = [pc EXCEPT ![t] = "idle"]
    /\ DoEndSessionObjects(ctx[t])
    /\ UNCHANGED <<config, requestID, ctx, loc, cacheVars>>

\* -------------------------------------------------------------- GetOrFetch
\* GetOrFetch with a fault: the fetcher is invoked whatever m.Get found.
GetOrFetchAlways(t, k) ==
    /\ pc[t] = "idle"
    /\ IF fromContext(ctx[t]).err # "nil"
       THEN NoSessionLogged
       ELSE /\ DoGet(ctx[t], k)
            /\ pc' = [pc EXCEPT ![t] = "GetOrFetch"]
            /\ loc' = [loc EXCEPT ![t] = [L0 EXCEPT !.key = k]]
            /\ UNCHANGED <<config, requestID, ctx, arenaVars>>

\* m.GetOrFetch(ctx, k, fetcher): the call of m.Get; a hit returns.
GetOrFetch(t, k) ==
    /\ pc[t] = "idle"
    /\ IF fromContext(ctx[t]).err # "nil"
       THEN NoSessionLogged
       ELSE /\ DoGet(ctx[t], k)
            /\ IF GetFound(ctx[t], k)
               THEN UNCHANGED <<pc, loc>>
               ELSE /\ pc' = [pc EXCEPT ![t] = "GetOrFetch"]
                    /\ loc' = [loc EXCEPT ![t] = [L0 EXCEPT !.key = k]]
            /\ UNCHANGED <<config, requestID, ctx, arenaVars>>

\* GetOrFetch with a fault: m.Put is called before the fetcher's error is
\* looked at.
GetOrFetchPutAnyway(t, obj, ok) ==
    /\ pc[t] = "GetOrFetch"
    /\ loc' = [loc EXCEPT ![t] = L0]
    /\ \E c \in PutChoices(ctx[t]) : DoPut(ctx[t], c, loc[t].key, obj)
    /\ pc' = [pc EXCEPT ![t] = "idle"]
    /\ UNCHANGED <<config, requestID, ctx, arenaVars>>

\* fetcher(ctx) returns (obj, nil) or an error; on success the call of m.Put.
GetOrFetchPut(t, obj, ok) ==
    /\ pc[t] = "GetOrFetch"
    /\ loc' = [loc EXCEPT ![t] = L0]
    /\ IF ok
       THEN \E c \in PutChoices(ctx[t]) :
               IF PutPanics(ctx[t], c)
               THEN /\ pc' = [pc EXCEPT ![t] = "panic"]
                    /\ UNCHANGED <<cacheVars, hist>>
               ELSE /\ DoPut(ctx[t], c, loc[t].key, obj)
                    /\ pc' = [pc EXCEPT ![t] = "idle"]
       ELSE /\ pc' = [pc EXCEPT ![t] = "idle"]
            /\ hist' = [hist EXCEPT !.s[ctx[t]].failed = TRUE]
            /\ UNCHANGED cacheVars
    /\ UNCHANGED <<config, requestID, ctx, arenaVars>>

\* ---------------------------------------------------------------- GetOrNew
\* GetOrNew with a fault: an object is taken whatever m.Get found.
GetOrNewAlways(t, k) ==
    /\ pc[t] = "idle"
    /\ IF fromContext(ctx[t]).err # "nil"
       THEN NoSessionLogged
       ELSE /\ DoGet(ctx[t], k)
            /\ pc' = [pc EXCEPT ![t] = "GetOrNew"]
            /\ loc' = [loc EXCEPT ![t] = [L0 EXCEPT !.key = k]]
            /\ UNCHANGED <<config, requestID, ctx, arenaVars>>

\* m.GetOrNew(ctx, k, prepare): the call of m.Get; a hit returns.
GetOrNew(t, k) ==
    /\ pc[t] = "idle"
    /\ IF fromContext(ctx[t]).err # "nil"
       THEN NoSessionLogged
       ELSE /\ DoGet(ctx[t], k)
            /\ IF GetFound(ctx[t], k)
               THEN UNCHANGED <<pc, loc>>
               ELSE /\ pc' = [pc EXCEPT ![t] = "GetOrNew"]
                    /\ loc' = [loc EXCEPT ![t] = [L0 EXCEPT !.key = k]]
            /\ UNCHANGED <<config, requestID, ctx, arenaVars>>

\* The call of m.NewObject.
GetOrNewObject(t) ==
    /\ pc[t] = "GetOrNew"
    /\ \E a \in NewObjectChoices(ctx[t]) :
          /\ DoNewObject(ctx[t], a)
          /\ loc' = [loc EXCEPT ![t].val = NewObjectPtr(ctx[t], a)]
    /\ pc' = [pc EXCEPT ![t] = "prepare"]
    /\ UNCHANGED <<config, requestID, ctx, cacheVars>>

\* GetOrNewPut with a fault: when prepare fails the slot is zeroed and given
\* back to the arena.
GetOrNewPutGiveBack(t, wrote, ok) ==
    /\ pc[t] = "prepare"
    /\ loc' = [loc EXCEPT ![t] = L0]
    /\ IF ok
       THEN /\ arenas' = IF wrote THEN WriteTo(loc[t].val, 1) ELSE arenas
            /\ \E c \in PutChoices(ctx[t]) :
                  IF PutPanics(ctx[t], c)
                  THEN /\ pc' = [pc EXCEPT ![t] = "panic"]
                       /\ UNCHANGED <<cacheVars, hist>>
                  ELSE /\ DoPut(ctx[t], c, loc[t].key, loc[t].val)
                       /\ pc' = [pc EXCEPT ![t] = "idle"]
       ELSE /\ arenas' = IF loc[t].val[1] = "slot"
                         THEN [arenas EXCEPT ![loc[t].val[2]].index = loc[t].val[3],
                                             ![loc[t].val[2]].data[loc[t].val[3] + 1] = 0]
                         ELSE arenas
            /\ pc' = [pc EXCEPT ![t] = "idle"]
            /\ hist' = [hist EXCEPT !.s[ctx[t]].failed = TRUE]
            /\ UNCHANGED cacheVars
    /\ UNCHANGED <<config, requestID, ctx, objects, objectsPool, heapNext>>

\* prepare(ctx, obj) writes to obj or not, and returns nil or an error; on
\* success the call of m.Put.
GetOrNewPut(t, wrote, ok) ==
    /\ pc[t] = "prepare"
    /\ loc' = [loc EXCEPT ![t] = L0]
    /\ arenas' = IF wrote THEN WriteTo(loc[t].val, 1) ELSE arenas
    /\ IF ok
       THEN \E c \in PutChoices(ctx[t]) :
               IF PutPanics(ctx[t], c)
               THEN /\ pc' = [pc EXCEPT ![t] = "panic"]
                    /\ UNCHANGED <<cacheVars, hist>>
               ELSE /\ DoPut(ctx[t], c, loc[t].key, loc[t].val)
                    /\ pc' = [pc EXCEPT ![t] = "idle"]
       ELSE /\ pc' = [pc EXCEPT ![t] = "idle"]
            /\ hist' = [hist EXCEPT !.s[ctx[t]].failed = TRUE]
            /\ UNCHANGED cacheVars
    /\ UNCHANGED <<config, requestID, ctx, objects, objectsPool, heapNext>>

\* -------------------------------------------------------------------- Next
\* A thread starts a session when it has none or has called EndSession on
\* the one it has, maxS sessions at most.
MayStart(t, maxS) ==
    /\ requestID < maxS
    /\ IF ctx[t] <= 0 THEN TRUE ELSE hist.s[ctx[t]].endCalled

\* new(T) is called maxH times at most.
MayAllocate(t, maxH) ==
    IF ctx[t] <= 0 \/ heapNext < maxH
    THEN TRUE
    ELSE \A a \in NewObjectChoices(ctx[t]) : objectPoolGet(ArenaFor(ctx[t], a)).hit

\* The logger is called MaxLogs times at most.
MayLog == op.logger => LogCalls(hist.log) < MaxLogs

\* The calls of thread t that are one critical section each, and EndSession.
Calls(t, maxS, maxH, keys, vals) ==
    \/ MayStart(t, maxS) /\ NewSession(t, 0)
    \/ ctx[t] > 0 /\ NewSession(t, ctx[t])
    \/ MayAllocate(t, maxH) /\ MayLog /\ NewObject(t)
    \/ \E i \in 0 .. objSize - 1 : Write(t, i)
    \/ \E k \in keys, v \in vals : Put(t, k, v)
    \/ MayLog /\ \E k \in keys : Get(t, k)
    \/ MayLog /\ \E k \in keys : Exists(t, k)
    \/ \E k \in keys : Delete(t, k)
    \/ EndSessionData(t)
    \/ EndSessionObjects(t)

\* The calls of thread t that are made of Get, NewObject and Put.
Composite(t, maxH, keys, vals) ==
    \/ MayLog /\ \E k \in keys : GetOrFetch(t, k)
    \/ \E obj \in vals, ok \in BOOLEAN : GetOrFetchPut(t, obj, ok)
    \/ MayLog /\ \E k \in keys : GetOrNew(t, k)
    \/ MayAllocate(t, maxH) /\ MayLog /\ GetOrNewObject(t)
    \/ \E wrote \in BOOLEAN, ok \in BOOLEAN : GetOrNewPut(t, wrote, ok)

\* Concurrent sessions: every thread drives one session at a time.
Step(t) == Calls(t, MaxSessions, MaxHeap, Keys, UserPtrs)

Next == \E t \in Threads : Step(t)

Spec == Init /\ [][Next]_vars

\* One session, driven by one thread, with every call of the package.
NextOne ==
    \/ Calls(1, 1, MaxHeapOne, KeysOne, UserPtrsOne)
    \/ Composite(1, MaxHeapOne, KeysOne, UserPtrsOne)

SpecOne == InitOne /\ [][NextOne]_vars

\* One session, driven by one thread, with fetchers that return objects of
\* their own and a cache small enough to evict them.
InitFetch == Setup(MaxObjSize, MaxCacheSizeFetch)

NextFetch ==
    \/ Calls(1, 1, MaxHeap, KeysFetch, UserPtrs)
    \/ Composite(1, MaxHeap, KeysFetch, FetchPtrs)

SpecFetch == InitFetch /\ [][NextFetch]_vars

\* The context NewSession returned to thread t is handed to thread u.
Share(t, u) ==
    /\ pc[t] = "idle"
    /\ pc[u] = "idle"
    /\ ctx[t] # 0
    /\ ctx[u] = 0
    /\ ctx' = [ctx EXCEPT ![u] = ctx[t]]
    /\ UNCHANGED <<config, requestID, pc, loc, cacheVars, arenaVars, hist>>

\* One session shared by the threads: the cache calls and GetOrFetch.
NextShared ==
    \/ MayStart(1, 1) /\ NewSession(1, 0)
    \/ \E u \in Threads : Share(1, u)
    \/ \E t \in Threads : ctx[t] > 0 /\ NewSession(t, ctx[t])
    \/ \E t \in Threads, k \in KeysShared, v \in UserPtrs : Put(t, k, v)
    \/ \E t \in Threads, k \in KeysShared : Get(t, k)
    \/ \E t \in Threads, k \in KeysShared : Delete(t, k)
    \/ \E t \in Threads, k \in KeysShared : GetOrFetch(t, k)
    \/ \E t \in Threads, obj \in FetchPtrs, ok \in BOOLEAN : GetOrFetchPut(t, obj, ok)

InitShared == Setup(MaxObjSize, MaxCacheSizeFetch)

SpecShared == InitShared /\ [][NextShared]_vars

\* One session shared by the threads, which store, take objects and end the
\* session in any order.
NextEnd ==
    \/ MayStart(1, 1) /\ NewSession(1, 0)
    \/ \E u \in Threads : Share(1, u)
    \/ \E t \in Threads, k \in Keys, v \in UserPtrs : Put(t, k, v)
    \/ \E t \in Threads, k \in Keys : Get(t, k)
    \/ \E t \in Threads : MayAllocate(t, MaxHeap) /\ NewObject(t)
    \/ \E t \in Threads : EndSessionData(t)
    \/ \E t \in Threads : EndSessionObjects(t)

SpecEnd == InitShared /\ [][NextEnd]_vars

\* ---------------------------------------------------------------- the locks
\* The calls again, one step per lock operation.  A thread's place in the
\* code says which locks it holds: "X.lock" is before the call of Lock or
\* RLock in X, "X.wait" is inside muData.Lock with the readers being waited
\* for, "X.rwait" is inside muData.RLock behind a writer, "X.cs" is inside
\* the critical section, "NewObject.get" is
\* inside p.get with p.mu held, "X.log" is inside the deferred call of the
\* logger, "fetcher" and "prepare" are inside the caller's callbacks.
\* loc[t].op is the call of GetOrFetch or GetOrNew the thread is inside, if any.

\* muData held for writing with a fault: EndSession unlocks it at its end.
WriteDataLate ==
    {"Put.cs", "Delete.cs", "EndSession.data", "EndSession.lockObjects", "EndSession.objects"}

\* muData is held for writing, for reading; muObjects is held; p.mu is held.
WriteData == {"Put.cs", "Delete.cs", "EndSession.data"}

ReadData == {"Get.cs", "Exists.cs"}

\* A writer is inside muData.Lock: it keeps new readers out and waits for
\* the readers that hold the lock to leave.
WaitData == {"Put.wait", "Delete.wait", "EndSession.waitData"}

\* A reader is inside muData.RLock, kept out by a writer.
RWaitData == {"Get.rwait", "Exists.rwait"}

HoldObjects == {"NewObject.cs", "NewObject.get", "NewObject.log", "EndSession.objects"}

HoldPool == {"NewObject.get"}

\* A callback of the caller is running.
InCallback == {"Get.log", "Exists.log", "NewObject.log", "fetcher", "prepare"}

HoldsData(t) == pc[t] \in WriteData \cup ReadData

HoldsObjects(t) == pc[t] \in HoldObjects

\* muData.Lock with a fault: the readers are not waited for.
MayLockIgnoreReaders(t) == \A u \in Threads : pc[u] \notin WriteData

\* sync.RWMutex: Lock returns when nobody holds the lock.
MayLock(t) == \A u \in Threads : pc[u] \notin WriteData \cup ReadData

\* sync.RWMutex: one writer at a time is inside Lock or holds the lock.
MayLockWriters(t) == \A u \in Threads : pc[u] \notin WriteData \cup WaitData

\* sync.RWMutex: RLock returns at once when no writer holds the lock or is
\* inside Lock; else when that writer unlocks.
MayRLock(t) == \A u \in Threads : pc[u] \notin WriteData \cup WaitData

\* sync.Mutex: Lock returns when nobody holds the lock.
MayLockObjects(t) == \A u \in Threads : pc[u] \notin HoldObjects

MayLockPool(t) == \A u \in Threads : pc[u] \notin HoldPool

\* The calls under way that have yet to call m.NewObject, and the calls of
\* the logger they have yet to make.
ToAllocate ==
    Cardinality({t \in Threads :
        \/ pc[t] \in {"NewObject.lock", "NewObject.cs", "NewObject.get"}
        \/ loc[t].op = "GetOrNew" /\ pc[t] \in {"Get.lock", "Get.rwait", "Get.cs", "Get.log"}})

ToLog ==
    Cardinality({t \in Threads : pc[t] \in {"Get.lock", "Exists.lock", "Get.rwait",
                                            "Exists.rwait", "NewObject.lock",
                                            "NewObject.cs", "NewObject.get"}})
    + Cardinality({t \in Threads : loc[t].op = "GetOrNew"
                                      /\ pc[t] \in {"Get.lock", "Get.rwait", "Get.cs", "Get.log"}})

\* A call that reaches new(T) or the logger starts while the bounds leave
\* room for it and for the calls under way.
MayCallNewObject == heapNext + ToAllocate < MaxHeap + 1

MayCallLogger(n) == op.logger => LogCalls(hist.log) + ToLog + n <= MaxLogs

\* Thread t moves to place p with locals l.
Goto(t, p, l) ==
    /\ pc' = [pc EXCEPT ![t] = p]
    /\ loc' = [loc EXCEPT ![t] = l]

\* muData.Unlock lets in the readers that wait behind the writer.
Unlocked(p) ==
    CASE p = "Get.rwait" -> "Get.cs"
      [] p = "Exists.rwait" -> "Exists.cs"
      [] OTHER -> p

\* Thread t unlocks muData and moves to place p with locals l.
GotoUnlock(t, p, l) ==
    /\ pc' = [u \in Threads |-> IF u = t THEN p ELSE Unlocked(pc[u])]
    /\ loc' = [loc EXCEPT ![t] = l]

\* Where a call of m.Get goes on when it returned: to its caller, or inside
\* GetOrFetch and GetOrNew on a miss to the fetcher and to m.NewObject.
AfterGet(o, found) ==
    IF o = "" \/ found THEN "idle"
    ELSE IF o = "GetOrFetch" THEN "fetcher" ELSE "NewObject.lock"

\* Where a call of m.NewObject goes on when it returned.
AfterNewObject(o) == IF o = "GetOrNew" THEN "prepare" ELSE "idle"

\* The locals at place p: none outside a call.
At(p, l) == IF p = "idle" THEN L0 ELSE l

\* m.Put(ctx, k, v) and m.Delete(ctx, k) up to muData.Lock.
CallPut(t, k, v) ==
    /\ pc[t] = "idle"
    /\ IF fromContext(ctx[t]).err # "nil"
       THEN NoSession
       ELSE /\ Goto(t, "Put.lock", [key |-> k, val |-> v, op |-> ""])
            /\ UNCHANGED <<config, requestID, ctx, cacheVars, arenaVars, hist>>

CallDelete(t, k) ==
    /\ pc[t] = "idle"
    /\ IF fromContext(ctx[t]).err # "nil"
       THEN NoSession
       ELSE /\ Goto(t, "Delete.lock", [L0 EXCEPT !.key = k])
            /\ UNCHANGED <<config, requestID, ctx, cacheVars, arenaVars, hist>>

\* m.Get(ctx, k) up to muData.RLock, called by the caller (o = "") or first
\* thing in GetOrFetch and GetOrNew; without a session it returns through the
\* deferred call of the logger.
CallGet(t, k, o) ==
    /\ pc[t] = "idle"
    /\ IF fromContext(ctx[t]).err # "nil"
       THEN /\ hist' = [hist EXCEPT !.log = LogCache(@, FALSE)]
            /\ Goto(t, IF op.logger THEN "Get.log" ELSE "idle", L0)
            /\ UNCHANGED <<config, requestID, ctx, cacheVars, arenaVars>>
       ELSE /\ Goto(t, "Get.lock", [key |-> k, val |-> Nil, op |-> o])
            /\ UNCHANGED <<config, requestID, ctx, cacheVars, arenaVars, hist>>

CallExists(t, k) ==
    /\ pc[t] = "idle"
    /\ IF fromContext(ctx[t]).err # "nil"
       THEN /\ hist' = [hist EXCEPT !.log = LogCache(@, FALSE)]
            /\ Goto(t, IF op.logger THEN "Exists.log" ELSE "idle", L0)
            /\ UNCHANGED <<config, requestID, ctx, cacheVars, arenaVars>>
       ELSE /\ Goto(t, "Exists.lock", [L0 EXCEPT !.key = k])
            /\ UNCHANGED <<config, requestID, ctx, cacheVars, arenaVars, hist>>

\* m.NewObject(ctx) up to muObjects.Lock.
CallNewObject(t) ==
    /\ pc[t] = "idle"
    /\ IF fromContext(ctx[t]).err # "nil"
       THEN NoSession
       ELSE /\ Goto(t, "NewObject.lock", L0)
            /\ UNCHANGED <<config, requestID, ctx, cacheVars, arenaVars, hist>>

\* m.EndSession(ctx) up to muData.Lock.
CallEndSession(t) ==
    /\ pc[t] = "idle"
    /\ IF fromContext(ctx[t]).err # "nil"
       THEN NoSession
       ELSE /\ Goto(t, "EndSession.lockData", L0)
            /\ UNCHANGED <<config, requestID, ctx, cacheVars, arenaVars, hist>>

\* The place after a lock was taken.
Locked(p) ==
    CASE p = "Put.lock" -> "Put.cs"
      [] p = "Delete.lock" -> "Delete.cs"
      [] p = "Get.lock" -> "Get.cs"
      [] p = "Exists.lock" -> "Exists.cs"
      [] p = "NewObject.lock" -> "NewObject.cs"
      [] p = "NewObject.cs" -> "NewObject.get"
      [] p = "EndSession.lockData" -> "EndSession.data"
      [] p = "EndSession.lockObjects" -> "EndSession.objects"
      [] p = "Put.wait" -> "Put.cs"
      [] p = "Delete.wait" -> "Delete.cs"
      [] p = "EndSession.waitData" -> "EndSession.data"

\* The place inside Lock or RLock of a thread that has to wait.
Waiting(p) ==
    CASE p = "Put.lock" -> "Put.wait"
      [] p = "Delete.lock" -> "Delete.wait"
      [] p = "EndSession.lockData" -> "EndSession.waitData"
      [] p = "Get.lock" -> "Get.rwait"
      [] p = "Exists.lock" -> "Exists.rwait"

\* Thread t moves on, and everything else stays.
Advance(t, p) ==
    /\ Goto(t, p, loc[t])
    /\ UNCHANGED <<config, requestID, ctx, cacheVars, arenaVars, hist>>

\* m.muData.Lock(): the writer gets in when no other writer is, and returns
\* with the lock when nobody holds it, at once or having waited for the
\* readers.
LockData(t) ==
    \/ /\ pc[t] \in {"Put.lock", "Delete.lock", "EndSession.lockData"}
       /\ MayLockWriters(t)
       /\ Advance(t, IF MayLock(t) THEN Locked(pc[t]) ELSE Waiting(pc[t]))
    \/ /\ pc[t] \in WaitData
       /\ MayLock(t)
       /\ Advance(t, Locked(pc[t]))

\* m.muData.RLock(): the reader returns with the lock, or waits behind a
\* writer for its Unlock.
RLockData(t) ==
    /\ pc[t] \in {"Get.lock", "Exists.lock"}
    /\ Advance(t, IF MayRLock(t) THEN Locked(pc[t]) ELSE Waiting(pc[t]))

\* m.muObjects.Lock() and p.mu.Lock() return.

LockObjects(t) ==
    /\ pc[t] \in {"NewObject.lock", "EndSession.lockObjects"}
    /\ MayLockObjects(t)
    /\ Advance(t, Locked(pc[t]))

LockPool(t) ==
    /\ pc[t] = "NewObject.cs"
    /\ MayLockPool(t)
    /\ Advance(t, Locked(pc[t]))

\* The critical sections, each up to its Unlock.  Put returns to the caller,
\* also when GetOrFetch or GetOrNew called it.
PutCS(t) ==
    /\ pc[t] = "Put.cs"
    /\ \E c \in PutChoices(ctx[t]) :
          /\ ~PutPanics(ctx[t], c)
          /\ DoPut(ctx[t], c, loc[t].key, loc[t].val)
    /\ GotoUnlock(t, "idle", L0)
    /\ UNCHANGED <<config, requestID, ctx, arenaVars>>

DeleteCS(t) ==
    /\ pc[t] = "Delete.cs"
    /\ DoDelete(ctx[t], loc[t].key)
    /\ GotoUnlock(t, "idle", L0)
    /\ UNCHANGED <<config, requestID, ctx, arenaVars>>

\* Get keeps what it found for its caller, and the deferred call of the
\* logger runs after RUnlock; hist.log has what the logger will be told.
GetCS(t) ==
    LET found == GetFound(ctx[t], loc[t].key)
        l == [loc[t] EXCEPT !.val = GetVal(ctx[t], loc[t].key)]
        p == IF op.logger THEN "Get.log" ELSE AfterGet(loc[t].op, found)
    IN  /\ pc[t] = "Get.cs"
        /\ DoGet(ctx[t], loc[t].key)
        /\ Goto(t, p, At(p, l))
        /\ UNCHANGED <<config, requestID, ctx, arenaVars>>

ExistsCS(t) ==
    /\ pc[t] = "Exists.cs"
    /\ DoExists(ctx[t], loc[t].key)
    /\ Goto(t, IF op.logger THEN "Exists.log" ELSE "idle", L0)
    /\ UNCHANGED <<config, requestID, ctx, arenaVars>>

\* p.get(ctx) up to p.mu.Unlock; without a logger NewObject returns, and
\* muObjects is unlocked.
NewObjectGet(t) ==
    /\ pc[t] = "NewObject.get"
    /\ \E a \in NewObjectChoices(ctx[t]) :
          LET l == [loc[t] EXCEPT !.val = NewObjectPtr(ctx[t], a)]
              p == IF op.logger THEN "NewObject.log" ELSE AfterNewObject(loc[t].op)
          IN  /\ DoNewObject(ctx[t], a)
              /\ Goto(t, p, At(p, l))
    /\ UNCHANGED <<config, requestID, ctx, cacheVars>>

EndSessionDataCS(t) ==
    /\ pc[t] = "EndSession.data"
    /\ DoEndSessionData(ctx[t])
    /\ GotoUnlock(t, "EndSession.lockObjects", L0)
    /\ UNCHANGED <<config, requestID, ctx, arenaVars>>

EndSessionObjectsCS(t) ==
    /\ pc[t] = "EndSession.objects"
    /\ DoEndSessionObjects(ctx[t])
    /\ Goto(t, "idle", L0)
    /\ UNCHANGED <<config, requestID, ctx, cacheVars>>

\* The logger returns: Get and Exists return; p.get returns, and NewObject
\* unlocks muObjects and returns.
GetLogged(t) ==
    LET p == AfterGet(loc[t].op, loc[t].val # Nil)
    IN  /\ pc[t] = "Get.log"
        /\ Goto(t, p, At(p, loc[t]))
        /\ UNCHANGED <<config, requestID, ctx, cacheVars, arenaVars, hist>>

ExistsLogged(t) ==
    /\ pc[t] = "Exists.log"
    /\ Goto(t, "idle", L0)
    /\ UNCHANGED <<config, requestID, ctx, cacheVars, arenaVars, hist>>

NewObjectLogged(t) ==
    LET p == AfterNewObject(loc[t].op)
    IN  /\ pc[t] = "NewObject.log"
        /\ Goto(t, p, At(p, loc[t]))
        /\ UNCHANGED <<config, requestID, ctx, cacheVars, arenaVars, hist>>

\* fetcher(ctx) returns obj or an error, and prepare(ctx, obj) returns nil or
\* an error, having written to obj or not; on success the call of m.Put.
Fetcher(t, obj, ok) ==
    /\ pc[t] = "fetcher"
    /\ IF ok
       THEN /\ Goto(t, "Put.lock", [loc[t] EXCEPT !.val = obj])
            /\ UNCHANGED hist
       ELSE /\ Goto(t, "idle", L0)
            /\ hist' = [hist EXCEPT !.s[ctx[t]].failed = TRUE]
    /\ UNCHANGED <<config, requestID, ctx, cacheVars, arenaVars>>

Prepare(t, wrote, ok) ==
    /\ pc[t] = "prepare"
    /\ arenas' = IF wrote THEN WriteTo(loc[t].val, 1) ELSE arenas
    /\ IF ok
       THEN /\ Goto(t, "Put.lock", loc[t])
            /\ UNCHANGED hist
       ELSE /\ Goto(t, "idle", L0)
            /\ hist' = [hist EXCEPT !.s[ctx[t]].failed = TRUE]
    /\ UNCHANGED <<config, requestID, ctx, cacheVars, objects, objectsPool, heapNext>>

\* The threads of a request make their calls until one of them calls
\* EndSession, as the deferred call in the README's usage does: calls under
\* way then go on, and EndSession may be called again.
MayCall(t) == IF ctx[t] <= 0 THEN TRUE ELSE ~hist.s[ctx[t]].endCalled

\* A thread calls the package.
CallLock(t) ==
    \/ MayCall(t) /\ \E k \in Keys : CallPut(t, k, UserPtr(1))
    \/ MayCall(t) /\ \E k \in Keys : CallDelete(t, k)
    \/ MayCall(t) /\ MayCallLogger(1) /\ \E k \in Keys : CallGet(t, k, "")
    \/ MayCall(t) /\ MayCallLogger(1) /\ \E k \in Keys : CallExists(t, k)
    \/ MayCall(t) /\ MayCallLogger(1) /\ MayCallNewObject /\ CallNewObject(t)
    \/ CallEndSession(t)
    \/ MayCall(t) /\ MayCallLogger(1) /\ \E k \in Keys : CallGet(t, k, "GetOrFetch")
    \/ MayCall(t) /\ MayCallLogger(2) /\ MayCallNewObject
          /\ \E k \in Keys : CallGet(t, k, "GetOrNew")

\* A lock is handed to a thread that waits for it.
AcquireLock(t) ==
    \/ LockData(t)
    \/ RLockData(t)
    \/ LockObjects(t)
    \/ LockPool(t)

\* A thread goes on inside a call, callbacks included.
ProceedLock(t) ==
    \/ PutCS(t)
    \/ DeleteCS(t)
    \/ GetCS(t)
    \/ ExistsCS(t)
    \/ NewObjectGet(t)
    \/ EndSessionDataCS(t)
    \/ EndSessionObjectsCS(t)
    \/ GetLogged(t)
    \/ ExistsLogged(t)
    \/ NewObjectLogged(t)
    \/ Fetcher(t, UserPtr(1), TRUE) \/ Fetcher(t, Nil, FALSE)
    \/ \E ok \in BOOLEAN : Prepare(t, FALSE, ok)

\* One session shared by the threads of a manager with or without a logger.
InitLock == New({MaxObjSize}, {MaxCacheSize}, {NoOptions, [logger |-> TRUE, name |-> "reqcache"]})

NextLock ==
    \/ MayStart(1, 1) /\ NewSession(1, 0)
    \/ \E u \in Threads : Share(1, u)
    \/ \E t \in Threads : CallLock(t)
    \/ \E t \in Threads : AcquireLock(t)
    \/ \E t \in Threads : ProceedLock(t)

SpecLock == InitLock /\ [][NextLock]_vars

\* Fair scheduling: a thread that can go on does, sync.Mutex and
\* sync.RWMutex hand the lock to a thread that keeps waiting for it, and the
\* callbacks return.
SpecLockFair ==
    /\ SpecLock
    /\ \A t \in Threads : SF_vars(AcquireLock(t)) /\ WF_vars(ProceedLock(t))

\* Construction with any arguments, then one session driven by one thread:
\* the calls need the manager New returned.
InitNew == New(0 .. MaxObjSize, 0 .. MaxCacheSize, Options)

NextNew ==
    \/ newErr = "nil" /\ Calls(1, 1, MaxHeap, Keys, UserPtrs)
    \/ newErr = "nil" /\ Composite(1, MaxHeap, Keys, UserPtrs)
    \/ newErr = "nil" /\ \E c \in {0, NilCtx} : Drop(1, c)

SpecNew == InitNew /\ [][NextNew]_vars

\* ------------------------------------------- the arena pool, sized at Get
\* The earlier revision of the arena pool: the sync.Pool constructs arenas
\* without storage, and objectSyncPool.Get(name, size, logger) sizes the one
\* it returns.  An arena is [data, spare, index, name, logger]: data is the
\* slice p.data (len(p.data) elements), spare the rest of its backing array
\* up to cap(p.data), which a later reslice brings back with what was
\* written there.  objects[s] is the arena its holder s has taken from the
\* pool and not put back.

\* What the New of the sync.Pool constructs.
objectPoolNew == [data |-> <<>>, spare |-> <<>>, index |-> 0, name |-> "", logger |-> FALSE]

\* objectSyncPool.Get(name, size, logger) with a fault: a reused backing
\* array is resliced and not cleared.
objectSyncPoolGetSizeDirty(o, name, size, logger) ==
    LET array == o.data \o o.spare
    IN  IF Len(array) < size
        THEN [data |-> [i \in 1 .. size |-> 0], spare |-> <<>>, index |-> 0,
              name |-> name, logger |-> logger]
        ELSE [data |-> SubSeq(array, 1, size),
              spare |-> SubSeq(array, size + 1, Len(array)),
              index |-> 0, name |-> name, logger |-> logger]

\* objectSyncPool.Get(name, size, logger) on the arena o the sync.Pool
\* returned: make([]T, size) when cap(o.data) < size, else o.data[:size]
\* with its size elements set to zero.
objectSyncPoolGetSize(o, name, size, logger) ==
    LET array == o.data \o o.spare
        resliced == SubSeq(array, 1, size)
    IN  IF Len(array) < size
        THEN [data |-> [i \in 1 .. size |-> 0], spare |-> <<>>, index |-> 0,
              name |-> name, logger |-> logger]
        ELSE [data |-> [i \in 1 .. Len(resliced) |-> 0],
              spare |-> SubSeq(array, size + 1, Len(array)),
              index |-> 0, name |-> name, logger |-> logger]

\* objectSyncPool.Put(v): the arena as it enters the pool.
objectSyncPoolPutNoLogger(v) == [v EXCEPT !.logger = FALSE]

\* What the sync.Pool may return: an arena put back, or a new one.
SyncPoolChoices ==
    {i \in 1 .. Len(arenas) : objectsPool[i] > 0} \cup
    (IF Len(arenas) < MaxSessions THEN {Len(arenas) + 1} ELSE {})

\* syncPool.Get(name, size, nil) by holder s.
SyncPoolGet(s, size) ==
    /\ objects[s] = 0
    /\ \E a \in SyncPoolChoices :
          /\ arenas' = Store(arenas, a,
                             objectSyncPoolGetSize(IF a > Len(arenas) THEN objectPoolNew
                                                   ELSE arenas[a],
                                                   "testSyncPool", size, FALSE))
          /\ objectsPool' = PoolTake(objectsPool, a)
          /\ objects' = [objects EXCEPT ![s] = a]
    /\ UNCHANGED <<config, requestID, ctx, pc, loc, cacheVars, heapNext, hist>>

\* pool.get(ctx) by holder s; without a logger the overflow is not logged.
SyncPoolTake(s) ==
    /\ objects[s] # 0
    /\ LET r == objectPoolGet(arenas[objects[s]])
       IN  /\ r.hit \/ heapNext < MaxHeap
           /\ arenas' = [arenas EXCEPT ![objects[s]] = r.pool]
           /\ heapNext' = IF r.hit THEN heapNext ELSE heapNext + 1
    /\ UNCHANGED <<config, requestID, ctx, pc, loc, cacheVars, objects, objectsPool, hist>>

\* *obj = v by holder s, obj the slot i that pool.get returned.
SyncPoolWrite(s, i) ==
    /\ objects[s] # 0
    /\ i < arenas[objects[s]].index
    /\ arenas' = WriteTo(SlotPtr(objects[s], i), 1)
    /\ UNCHANGED <<config, requestID, ctx, pc, loc, cacheVars, objects, objectsPool,
                   heapNext, hist>>

\* syncPool.Put(pool) by holder s.
SyncPoolPut(s) ==
    /\ objects[s] # 0
    /\ arenas' = [arenas EXCEPT ![objects[s]] = objectSyncPoolPutNoLogger(@)]
    /\ objectsPool' = PoolPut(objectsPool, objects[s])
    /\ objects' = [objects EXCEPT ![s] = 0]
    /\ UNCHANGED <<config, requestID, ctx, pc, loc, cacheVars, heapNext, hist>>

NextSyncPool ==
    \E s \in SessionIds :
        \/ \E size \in 0 .. MaxSize : SyncPoolGet(s, size)
        \/ SyncPoolTake(s)
        \/ \E i \in 0 .. MaxSize - 1 : SyncPoolWrite(s, i)
        \/ SyncPoolPut(s)

SpecSyncPool == Init /\ [][NextSyncPool]_vars

\* ============================================================== properties
Live(s) == \E t \in Threads : ctx[t] = s

\* What the history of session s expects its cache to hold.
ExpectKeys(s) == {hist.s[s].expect[i][1] : i \in 1 .. Len(hist.s[s].expect)}

ExpectVal(s, k) == hist.s[s].expect[IndexOf(hist.s[s].expect, k)][2]

CacheKeys(s) == {CacheOf(s)[i][1] : i \in 1 .. Len(CacheOf(s))}

\* --------------------------------------------------------------------- C1
\* Get and Exists of a session find a key only if the session itself stored
\* it and has not deleted it, had it evicted or ended since, and Get returns
\* the pointer the session stored last.
C1Found ==
    \A s \in SessionIds : Live(s) =>
        \A k \in Keys :
            (GetFound(s, k) \/ ExistsFound(s, k)) =>
                /\ k \in ExpectKeys(s)
                /\ GetVal(s, k) = ExpectVal(s, k)

\* A step that changes the cache content or the arena cursor of session s
\* is a call of a thread whose context carries s.
C1Frame ==
    \A s \in SessionIds :
        (CacheOf(s)' # CacheOf(s) \/ CursorOf(s)' # CursorOf(s)) =>
            \E t \in Threads : ctx[t] = s /\ Step(t)

\* C1: for every interleaving of the calls of concurrent sessions, sessions
\* whose instances are recycled included, a session finds only what it stored
\* itself and gets back the pointer it stored last, and no call of another
\* session changes its cache content or its arena cursor.
C1Isolation == []C1Found /\ [][C1Frame]_vars

\* Two live sessions hold the same key with different pointers, one of them
\* in an instance that the other one filled and handed to the pool before.
C1Witness ==
    \E s1, s2 \in SessionIds : \E k \in Keys :
        /\ s1 # s2 /\ Live(s1) /\ Live(s2)
        /\ GetFound(s1, k) /\ GetFound(s2, k)
        /\ GetVal(s1, k) # GetVal(s2, k)
        /\ data[s2] \in hist.purged /\ ~hist.s[s2].endCalled

\* --------------------------------------------------------------------- C2
\* After Put(k, v) of the session's thread, Get(k) returns (v, true, nil).
C2PutGet ==
    \A k \in KeysOne, v \in UserPtrsOne :
        (ctx[1] # 0 /\ Put(1, k, v)) =>
            /\ PutErr(ctx[1]) = "nil"
            /\ GetErr(ctx'[1]) = "nil"
            /\ GetFound(ctx[1], k)'
            /\ GetVal(ctx[1], k)' = v

\* Get does not find a key the session never stored.
C2Never ==
    \A s \in SessionIds : Live(s) =>
        \A k \in KeysOne \ hist.s[s].everPut : ~GetFound(s, k)

\* C2: within one session driven by one thread, Get(k) right after Put(k, v)
\* returns the pointer v, found, with no error, and Get of a key never Put
\* in the session returns not found.
C2PutThenGet == [][C2PutGet]_vars /\ []C2Never

\* The session's Get finds a key it Put and there is a key it never Put.
C2Witness ==
    /\ ctx[1] # 0
    /\ \E k \in KeysOne : GetFound(ctx[1], k) /\ GetVal(ctx[1], k) \in UserPtrsOne
    /\ \E k \in KeysOne : k \notin hist.s[ctx[1]].everPut

\* --------------------------------------------------------------------- C3
\* C3: after EndSession(ctx) returned, and until the next Put with ctx, Get
\* and Exists with ctx return not found, with no error, for every key.
C3AfterEnd ==
    \A s \in SessionIds : (Live(s) /\ hist.s[s].endedNoPut) =>
        /\ GetErr(s) = "nil"
        /\ \A k \in Keys : ~GetFound(s, k) /\ ~ExistsFound(s, k)

\* A session that stored a key has ended and made no Put since, and the
\* instance it filled is attached to another session, with entries.
C3Witness ==
    \E s, s2 \in SessionIds :
        /\ s # s2 /\ Live(s) /\ Live(s2)
        /\ hist.s[s].endedNoPut
        /\ hist.s[s].everPut # {}
        /\ data[s2] \in hist.purged /\ ~hist.s[s2].endCalled
        /\ CacheOf(s2) # <<>>

\* --------------------------------------------------------------------- C4
\* An instance is in the pool once at most, and then in no map.
C4Once ==
    /\ \A i \in SessionIds : dataPool[i] <= 1 /\ (dataPool[i] = 1 => \A s \in SessionIds : data[s] # i)
    /\ \A i \in SessionIds : objectsPool[i] <= 1 /\ (objectsPool[i] = 1 => \A s \in SessionIds : objects[s] # i)

\* When EndSession returned and nothing was called since, the session has no
\* entry in either map.
C4Removed ==
    \A s \in SessionIds : hist.s[s].ended => data[s] = 0 /\ objects[s] = 0

\* The two critical sections of EndSession of thread t: each removes the
\* session's entry and nothing else from its map, and puts the removed
\* instance and nothing else into its pool; neither changes anything when
\* EndSession had returned before and nothing was called since.
C4Step(t) ==
    LET s == ctx[t] IN
    /\ (pc[t] = "idle" /\ pc'[t] = "EndSession") =>
          /\ data' = [data EXCEPT ![s] = 0]
          /\ dataPool' = IF data[s] # 0 THEN [dataPool EXCEPT ![data[s]] = @ + 1] ELSE dataPool
          /\ UNCHANGED <<objects, objectsPool>>
          /\ hist.s[s].ended => UNCHANGED <<data, dataPool>>
    /\ (pc[t] = "EndSession" /\ pc'[t] = "idle") =>
          /\ objects' = [objects EXCEPT ![s] = 0]
          /\ objectsPool' = IF objects[s] # 0 THEN [objectsPool EXCEPT ![objects[s]] = @ + 1]
                            ELSE objectsPool
          /\ UNCHANGED <<data, dataPool>>
          /\ hist.s[s].ended => UNCHANGED <<objects, objectsPool>>

\* C4: EndSession removes the session's entry from both maps and hands each
\* removed instance to its pool exactly once; a second EndSession with no
\* call in between succeeds and changes neither map nor pool.
C4Idempotent == [](C4Once /\ C4Removed) /\ [][\A t \in Threads : C4Step(t)]_vars

\* A second EndSession is between its critical sections; the first one handed
\* a cache and an arena to the pools.
C4Witness ==
    \E t \in Threads :
        /\ pc[t] = "EndSession"
        /\ hist.s[ctx[t]].ended
        /\ \E i \in SessionIds : dataPool[i] = 1
        /\ \E i \in SessionIds : objectsPool[i] = 1

\* --------------------------------------------------------------------- C5
\* C5: with concurrent sessions, each driven by one thread that calls
\* EndSession last, both maps are empty once every EndSession has returned.
C5AllEnded ==
    (requestID > 0 /\ \A s \in 1 .. requestID : hist.s[s].ended) =>
        \A s \in SessionIds : data[s] = 0 /\ objects[s] = 0

\* Two sessions ran on two threads, both stored keys and took objects, and
\* both have ended.
C5Witness ==
    /\ \A t \in Threads : ctx[t] # 0
    /\ \A s \in 1 .. requestID : hist.s[s].ended /\ hist.s[s].everPut # {}
    /\ Len(lrus) = MaxSessions
    /\ Len(arenas) = MaxSessions

\* --------------------------------------------------------------------- C6
\* The ids minted start at 1 and increase strictly, every context carries a
\* minted id, and no two threads' contexts carry the same one.
C6Ids ==
    /\ Len(hist.minted) > 0 => hist.minted[1] = 1
    /\ \A i, j \in 1 .. Len(hist.minted) : i < j => hist.minted[i] < hist.minted[j]
    /\ \A t \in Threads : ctx[t] # 0 => \E i \in 1 .. Len(hist.minted) : hist.minted[i] = ctx[t]
    /\ \A t1, t2 \in Threads : (t1 # t2 /\ ctx[t1] # 0) => ctx[t1] # ctx[t2]

\* The id a thread's new context carries is the one minted by that step.
C6Minted ==
    \A t \in Threads : ctx'[t] # ctx[t] => hist.minted' = Append(hist.minted, ctx'[t])

\* C6: the first NewSession that succeeds yields id 1, every later one an id
\* greater than all minted before, and under any interleaving of concurrent
\* NewSession calls no two sessions, live or ended, carry the same id.
C6Unique == []C6Ids /\ [][C6Minted]_vars

\* Both threads have started a session, the second thread first.
C6Witness ==
    /\ Len(hist.minted) = MaxSessions
    /\ ctx[1] = 2
    /\ ctx[2] = 1

\* --------------------------------------------------------------------- C7
\* C7: in a fresh session with object capacity C > 0 the i-th NewObject, for
\* i <= C, returns a pointer to slot i-1 of the session's arena; every later
\* call returns an object allocated outside the arena; and the pointers
\* returned during the session are pairwise distinct.
C7Slots ==
    \A s \in SessionIds : (Live(s) /\ ~hist.s[s].endCalled) =>
        \A a \in NewObjectChoices(s) :
            LET p == NewObjectPtr(s, a)
                i == hist.s[s].nNew + 1
            IN  /\ p # Nil
                /\ i <= objSize => p = SlotPtr(a, i - 1)
                /\ i > objSize => p[1] = "heap"
                /\ p \notin hist.s[s].got
                /\ Cardinality(hist.s[s].got) = i - 1

\* A session with capacity 2 has made four NewObject calls.
C7Witness ==
    /\ ctx[1] # 0
    /\ objSize = 2
    /\ ~hist.s[ctx[1]].endCalled
    /\ hist.s[ctx[1]].nNew = 4
    /\ Cardinality(hist.s[ctx[1]].got) = 4

\* --------------------------------------------------------------------- C8
\* The arena NewObject attaches to a session that has none.
C8Attach ==
    \A s \in SessionIds : (Live(s) /\ objects[s] = 0) =>
        \A a \in NewObjectChoices(s) :
            /\ ArenaFor(s, a).index = 0
            /\ \A i \in 1 .. Len(ArenaFor(s, a).data) : ArenaFor(s, a).data[i] = 0

\* The object NewObject returns.
C8Return ==
    \A s \in SessionIds : Live(s) =>
        \A a \in NewObjectChoices(s) : Deref(s, a, NewObjectPtr(s, a)) = 0

\* C8: an arena has cursor 0 and only zero slots when it is attached to a
\* session, whatever an earlier session wrote into it, and the object a
\* pointer returned by NewObject refers to is zero when it is returned.
C8Zeroed == C8Attach /\ C8Return

\* A session that never called EndSession has no arena, and the pool holds
\* one that an earlier session wrote into.
C8Witness ==
    \E s \in SessionIds :
        /\ Live(s) /\ ~hist.s[s].endCalled /\ objects[s] = 0
        /\ \E a \in NewObjectChoices(s) :
              /\ a <= Len(arenas)
              /\ arenas[a].index > 0
              /\ arenas[a].data[1] # 0

\* --------------------------------------------------------------------- C9
\* C9: every cache instance in the pool is empty, the cache a session's
\* first Put attaches holds no entry before that Put adds its own, and a
\* session never finds a key that only an earlier session stored in the
\* same instance.
C9Empty ==
    /\ \A c \in 1 .. Len(lrus) : dataPool[c] > 0 => lrus[c].items = <<>>
    /\ \A s \in SessionIds : (Live(s) /\ data[s] = 0) =>
          \A c \in PutChoices(s) : cachePoolGet(c).items = <<>>
    /\ \A s \in SessionIds : Live(s) =>
          \A k \in Keys : GetFound(s, k) => k \in hist.s[s].everPut

\* A session that never called EndSession has a cache instance that an
\* earlier session filled, and its own entry in it.
C9Witness ==
    \E s \in SessionIds :
        /\ Live(s) /\ ~hist.s[s].endCalled
        /\ data[s] \in hist.purged
        /\ CacheOf(s) # <<>>

\* -------------------------------------------------------------------- C10
\* A cache never holds more than cacheSize entries.
C10Size ==
    /\ \A c \in 1 .. Len(lrus) : Len(lrus[c].items) <= cacheSize
    /\ \A s \in SessionIds : Len(CacheOf(s)) <= cacheSize

\* A step that adds key k to a full cache that did not hold it removes one
\* entry, the one whose last Put or successful Get is the oldest, and leaves
\* the other entries as they were.
C10Evict ==
    \A s \in SessionIds : \A k \in KeysOne :
        (Len(CacheOf(s)) = cacheSize /\ k \notin CacheKeys(s) /\ k \in CacheKeys(s)') =>
            LET e == hist.s[s].expect IN
            /\ Len(e) = cacheSize
            /\ e[Len(e)][1] \in CacheKeys(s)
            /\ CacheKeys(s)' = (CacheKeys(s) \ {e[Len(e)][1]}) \cup {k}
            /\ Len(CacheOf(s)') = cacheSize
            /\ \A k2 \in CacheKeys(s) \ {e[Len(e)][1]} : GetVal(s, k2)' = GetVal(s, k2)

\* C10: a session's cache holds cacheSize entries at most, and a Put of a
\* key that is not in a full cache evicts exactly one entry, the least
\* recently accessed one (accessed by Put or by a Get that found it), and
\* leaves the others in place.
C10Bounded == []C10Size /\ [][C10Evict]_vars

\* A cache of capacity 2 is full after three keys were stored in it.
C10Witness ==
    /\ ctx[1] # 0
    /\ cacheSize = 2
    /\ ~hist.s[ctx[1]].endCalled
    /\ Len(CacheOf(ctx[1])) = 2
    /\ Cardinality(hist.s[ctx[1]].everPut) = 3

\* -------------------------------------------------------------------- C11
\* GetOrFetch of a key the cache holds returns without invoking the fetcher,
\* the pointer being the one stored last under the key, and leaves the
\* cache's entries as they are.
C11Hit ==
    \A k \in KeysFetch :
        (ctx[1] # 0 /\ GetFound(ctx[1], k) /\ GetOrFetch(1, k)) =>
            /\ GetErr(ctx[1]) = "nil"
            /\ pc'[1] = "idle"
            /\ GetVal(ctx[1], k) = ExpectVal(ctx[1], k)
            /\ CacheKeys(ctx[1])' = CacheKeys(ctx[1])
            /\ \A k2 \in CacheKeys(ctx[1]) : GetVal(ctx[1], k2)' = GetVal(ctx[1], k2)

\* GetOrFetch of a key the cache does not hold goes on to the fetcher, the
\* cache untouched.
C11Miss ==
    \A k \in KeysFetch :
        (ctx[1] # 0 /\ ~GetFound(ctx[1], k) /\ GetOrFetch(1, k)) =>
            /\ pc'[1] = "GetOrFetch"
            /\ loc'[1].key = k
            /\ UNCHANGED cacheVars

\* The call that went on to the fetcher invokes it once and returns; when the
\* fetcher succeeds its object is what Get of the key finds afterwards.
C11Fetch ==
    \A k \in KeysFetch :
        (pc[1] = "GetOrFetch" /\ loc[1].key = k) =>
            \E obj \in FetchPtrs, ok \in BOOLEAN :
                /\ GetOrFetchPut(1, obj, ok)
                /\ pc'[1] = "idle"
                /\ ok => GetFound(ctx[1], k)' /\ GetVal(ctx[1], k)' = obj

\* C11: GetOrFetch(k, fetch) returns the cached pointer without invoking
\* fetch when k is present; when k is absent it invokes fetch exactly once
\* and, if fetch succeeds, stores the result under k and returns that same
\* pointer, so that a following Get(k) returns it, found.
C11GetOrFetch == [][C11Hit /\ C11Miss /\ C11Fetch]_vars

\* A GetOrFetch missed, fetched and stored, and the key is found with the
\* fetcher's object.
C11Witness ==
    /\ ctx[1] # 0
    /\ pc[1] = "idle"
    /\ \E k \in KeysFetch :
          /\ <<k, GetVal(ctx[1], k)>> \in hist.s[ctx[1]].kept
          /\ GetFound(ctx[1], k)
          /\ GetVal(ctx[1], k) \in FetchPtrs

\* -------------------------------------------------------------------- C12
\* C12 as stated: in a session used by a single thread, once a GetOrFetch
\* of k fetched and stored a value, any later GetOrFetch of k with no
\* Delete(k) in between (nor a Put of k itself, nor EndSession) returns
\* without invoking the fetcher and returns that value, whatever Puts of
\* other keys, Gets and NewObject calls came in between.
C12NeverAgain ==
    [][\A k \in KeysFetch :
          IF ctx[1] = 0 THEN TRUE
          ELSE \A p \in hist.s[ctx[1]].fetched :
                  (p[1] = k /\ GetOrFetch(1, k)) =>
                      /\ pc'[1] = "idle"
                      /\ GetFound(ctx[1], k)
                      /\ GetVal(ctx[1], k) = p[2]]_vars

\* C12, amended: the same, for a key that the Puts in between have not
\* evicted from the session's cache.
C12NotEvicted ==
    [][\A k \in KeysFetch :
          IF ctx[1] = 0 THEN TRUE
          ELSE \A p \in hist.s[ctx[1]].kept :
                  (p[1] = k /\ GetOrFetch(1, k)) =>
                      /\ pc'[1] = "idle"
                      /\ GetFound(ctx[1], k)
                      /\ GetVal(ctx[1], k) = p[2]]_vars

\* A fetched key is still cached after every other key was stored, one of
\* them more recently, and NewObject was called.
C12Witness ==
    /\ ctx[1] # 0
    /\ pc[1] = "idle"
    /\ hist.s[ctx[1]].nNew > 0
    /\ hist.s[ctx[1]].everPut = KeysFetch
    /\ \E p \in hist.s[ctx[1]].kept :
          /\ Len(CacheOf(ctx[1])) = 2
          /\ CacheOf(ctx[1])[1][1] # p[1]
          /\ CacheOf(ctx[1])[2] = p

\* -------------------------------------------------------------------- C13
\* The fetcher's error ends GetOrFetch: the call returns, and the cache, the
\* cache map and the pool are as they were, the key absent.
C13Fetch ==
    \A k \in KeysFetch, obj \in FetchPtrs :
        (pc[1] = "GetOrFetch" /\ loc[1].key = k /\ GetOrFetchPut(1, obj, FALSE)) =>
            /\ pc'[1] = "idle"
            /\ UNCHANGED cacheVars
            /\ ~GetFound(ctx[1], k)'

\* The error of prepare ends GetOrNew in the same way.
C13Prepare ==
    \A k \in KeysFetch, wrote \in BOOLEAN :
        (pc[1] = "prepare" /\ loc[1].key = k /\ GetOrNewPut(1, wrote, FALSE)) =>
            /\ pc'[1] = "idle"
            /\ UNCHANGED cacheVars
            /\ ~GetFound(ctx[1], k)'

\* C13: when the fetcher of GetOrFetch or the prepare of GetOrNew returns an
\* error, the call returns with it, the callback is not invoked again, and
\* the session's cache is unchanged: the key stays absent and the cache map
\* gets no entry for the session.
C13CallbackError == [][C13Fetch /\ C13Prepare]_vars

\* A callback just failed in a session that has an arena and no cache.
C13Witness ==
    /\ ctx[1] # 0
    /\ pc[1] = "idle"
    /\ hist.s[ctx[1]].failed
    /\ objects[ctx[1]] # 0
    /\ data[ctx[1]] = 0

\* -------------------------------------------------------------------- C14
\* GetOrNew of a key the cache holds returns without taking an object and
\* without invoking prepare, the pointer being the one stored last.
C14Hit ==
    \A k \in KeysFetch :
        (ctx[1] # 0 /\ GetFound(ctx[1], k) /\ GetOrNew(1, k)) =>
            /\ pc'[1] = "idle"
            /\ GetVal(ctx[1], k) = ExpectVal(ctx[1], k)
            /\ UNCHANGED arenaVars

\* GetOrNew of a key the cache does not hold goes on to NewObject.
C14Miss ==
    \A k \in KeysFetch :
        (ctx[1] # 0 /\ ~GetFound(ctx[1], k) /\ GetOrNew(1, k)) =>
            /\ pc'[1] = "GetOrNew"
            /\ loc'[1].key = k
            /\ UNCHANGED <<cacheVars, arenaVars>>

\* It takes one object: the next slot of the session's arena, or one new(T).
C14Object ==
    pc[1] = "GetOrNew" =>
        /\ GetOrNewObject(1)
        /\ pc'[1] = "prepare"
        /\ loc'[1].key = loc[1].key
        /\ \E a \in NewObjectChoices(ctx[1]) : loc'[1].val = NewObjectPtr(ctx[1], a)
        /\ \/ loc'[1].val[1] = "slot" /\ CursorOf(ctx[1])' = CursorOf(ctx[1]) + 1
                                      /\ heapNext' = heapNext
           \/ loc'[1].val[1] = "heap" /\ CursorOf(ctx[1])' = CursorOf(ctx[1])
                                      /\ heapNext' = heapNext + 1
        /\ UNCHANGED cacheVars

\* It invokes prepare once on that object and returns, taking no other
\* object; when prepare succeeds the object is what Get of the key finds.
C14Prepare ==
    \A k \in KeysFetch :
        (pc[1] = "prepare" /\ loc[1].key = k) =>
            \E wrote \in BOOLEAN, ok \in BOOLEAN :
                /\ GetOrNewPut(1, wrote, ok)
                /\ pc'[1] = "idle"
                /\ CursorOf(ctx[1])' = CursorOf(ctx[1])
                /\ UNCHANGED <<objects, objectsPool, heapNext>>
                /\ ok => GetFound(ctx[1], k)' /\ GetVal(ctx[1], k)' = loc[1].val

\* C14: GetOrNew(k, prepare) returns the cached pointer when k is present,
\* without invoking prepare and without taking an arena slot; when k is
\* absent it obtains exactly one object through NewObject, invokes prepare
\* on it exactly once, stores it under k and returns it.
C14GetOrNew == [][C14Hit /\ C14Miss /\ C14Object /\ C14Prepare]_vars

\* A GetOrNew stored an arena slot under a key, and the key is found.
C14Witness ==
    /\ ctx[1] # 0
    /\ pc[1] = "idle"
    /\ \E k \in KeysFetch :
          /\ GetFound(ctx[1], k)
          /\ GetVal(ctx[1], k)[1] = "slot"
          /\ GetVal(ctx[1], k) \in hist.s[ctx[1]].got

\* -------------------------------------------------------------------- C15
\* Once two GetOrFetch of one key and one session, both past their miss,
\* have stored their fetchers' objects, the key holds the object stored
\* second.
C15LastWins ==
    \A s \in SessionIds : Live(s) /\ Len(hist.s[s].race) = 2 =>
        /\ GetFound(s, hist.s[s].race[2][1])
        /\ GetVal(s, hist.s[s].race[2][1]) = hist.s[s].race[2][2]

\* A call past its miss does nothing but invoke its fetcher and return,
\* whatever the other thread has stored under the key since.
C15Both ==
    \A t \in Threads :
        (pc[t] = "GetOrFetch" /\ pc'[t] # pc[t]) =>
            \E obj \in FetchPtrs, ok \in BOOLEAN : GetOrFetchPut(t, obj, ok)

\* C15: GetOrFetch is not single-flight: two concurrent GetOrFetch of one
\* key in one session can both miss and both invoke their fetchers, and
\* after both returned the key holds the value whose Put completed last.
C15NotSingleFlight == []C15LastWins /\ [][C15Both]_vars

\* Both threads missed, both fetched, both returned; the objects differ and
\* the key holds the one stored second.
C15Witness ==
    /\ ctx[1] # 0
    /\ ctx[2] = ctx[1]
    /\ pc[1] = "idle"
    /\ pc[2] = "idle"
    /\ Len(hist.s[ctx[1]].race) = 2
    /\ hist.s[ctx[1]].race[1][2] # hist.s[ctx[1]].race[2][2]
    /\ GetVal(ctx[1], hist.s[ctx[1]].race[2][1]) = hist.s[ctx[1]].race[2][2]

\* -------------------------------------------------------------------- C16
\* The error a call returns for a context without a session, nil included.
C16Error ==
    ctx[1] <= 0 =>
        /\ fromContext(ctx[1]).err = "ErrNoSessionInContext"
        /\ PutErr(ctx[1]) = "ErrNoSessionInContext"
        /\ GetErr(ctx[1]) = "ErrNoSessionInContext"

\* Such a call returns at once: it does not go on to a callback, does not
\* panic, and both maps, the arenas, the caches and the pools are unchanged.
C16Frame ==
    \A k \in Keys, v \in UserPtrs :
        (/\ ctx[1] <= 0
         /\ \/ NewObject(1) \/ Put(1, k, v) \/ Get(1, k) \/ Exists(1, k) \/ Delete(1, k)
            \/ GetOrFetch(1, k) \/ GetOrNew(1, k) \/ EndSessionData(1)) =>
            /\ pc'[1] = "idle"
            /\ UNCHANGED <<cacheVars, arenaVars, loc>>

\* Nothing but NewSession changes anything for a caller without a session.
C16Only ==
    (ctx[1] <= 0 /\ ctx'[1] <= 0) => UNCHANGED <<cacheVars, arenaVars, pc, loc>>

C17Seen ==
    \A t \in Threads : ctx[t] > 0 =>
        /\ InContext(ctx[t])
        /\ NewSessionErr(ctx[t]) = "ErrSessionAlreadyExists"

\* NewSession on it mints nothing and leaves every context as it is.
C17Step ==
    \A t \in Threads :
        (ctx[t] > 0 /\ NewSession(t, ctx[t])) =>
            /\ requestID' = requestID
            /\ ctx' = ctx
            /\ hist'.minted = hist.minted

C18ZeroObjects ==
    (objSize = 0 /\ cacheSize > 0 /\ ~(op.logger /\ op.name = "")) =>
        /\ newErr = "nil"
        /\ \A s \in SessionIds : Live(s) =>
              \A a \in NewObjectChoices(s) :
                  /\ ~objectPoolGet(ArenaFor(s, a)).hit
                  /\ NewObjectPtr(s, a)[1] = "heap"

\* -------------------------------------------------------------------- C19
\* C19: a manager can be constructed with cacheSize 0: New succeeds, Put
\* succeeds and stores nothing, Get and Exists find no key and Delete
\* removes none, and no call panics.
C19ZeroCache ==
    (cacheSize = 0 /\ objSize > 0 /\ ~(op.logger /\ op.name = "")) =>
        /\ newErr = "nil"
        /\ \A t \in Threads : pc[t] # "panic"
        /\ \A s \in SessionIds : Live(s) =>
              /\ PutErr(s) = "nil"
              /\ \A k \in Keys : ~GetFound(s, k) /\ ~ExistsFound(s, k) /\ ~DeleteRemoved(s, k)

\* -------------------------------------------------------------------- C20
\* New returns an error, and no manager, for a logger with an empty name.
C20Name ==
    (op.logger /\ op.name = "") =>
        /\ newErr # "nil"
        /\ requestID = 0 /\ lrus = <<>> /\ arenas = <<>>
        /\ \A s \in SessionIds : data[s] = 0 /\ objects[s] = 0

\* The manager New returned has sizes no pool constructor fails on, no call
\* on it panics, and a call with a session returns no error.
C20Later ==
    newErr = "nil" =>
        /\ ~newPoolWrapperPanics(cacheSize)
        /\ objSize >= 0
        /\ \A t \in Threads : pc[t] # "panic"
        /\ \A t \in Threads : ctx[t] > 0 => PutErr(ctx[t]) = "nil" /\ GetErr(ctx[t]) = "nil"

\* C20: New fails at construction, returning an error and no manager,
\* whenever a logger is supplied with an empty name; and no call on a
\* manager that New returned panics or fails because of the configuration.
C20AtConstruction == C20Name /\ C20Later

\* New was called with valid sizes, a logger and an empty name, and
\* returned the error of the name check.
C20Witness ==
    /\ op.logger
    /\ op.name = ""
    /\ objSize > 0
    /\ cacheSize > 0
    /\ newErr = "operation name must be set when logger is provided"

\* -------------------------------------------------------------------- C21
\* Delete(k) reports removed exactly when the session stored k and has it
\* still; afterwards Exists and Get do not find k, and the other entries
\* are the ones before, in their order; without a cache entry it reports
\* false and creates none.
C21Step ==
    \A t \in Threads, k \in KeysShared :
        (ctx[t] > 0 /\ Delete(t, k)) =>
            /\ fromContext(ctx[t]).err = "nil"
            /\ DeleteRemoved(ctx[t], k) = (k \in ExpectKeys(ctx[t]))
            /\ ~ExistsFound(ctx[t], k)'
            /\ ~GetFound(ctx[t], k)'
            /\ CacheKeys(ctx[t])' = CacheKeys(ctx[t]) \ {k}
            /\ \A k2 \in CacheKeys(ctx[t]) \ {k} : GetVal(ctx[t], k2)' = GetVal(ctx[t], k2)
            /\ Len(CacheOf(ctx[t])') = Len(CacheOf(ctx[t])) - (IF DeleteRemoved(ctx[t], k) THEN 1 ELSE 0)
            /\ data[ctx[t]] = 0 => ~DeleteRemoved(ctx[t], k) /\ data'[ctx[t]] = 0

\* C21: Delete(k) returns removed=true exactly when k was in the session's
\* cache; afterwards Exists(k) and Get(k) report not found and every other
\* entry is unchanged; it returns false when k is absent or the session has
\* no cache yet.
C21Delete == [][C21Step]_vars

\* Two keys were stored in a cache of size 2 and one is left: the other was
\* deleted.
C21Witness ==
    /\ ctx[1] > 0
    /\ cacheSize = 2
    /\ ~hist.s[ctx[1]].endCalled
    /\ hist.s[ctx[1]].everPut = KeysShared
    /\ Len(CacheOf(ctx[1])) = 1

\* What m.Get(ctx, k) and m.Exists(ctx, k) return as found, c the session id
\* the context carries.
FoundByGet(c, k) == IF GetErr(c) # "nil" THEN FALSE ELSE GetFound(c, k)

FoundByExists(c, k) == IF fromContext(c).err # "nil" THEN FALSE ELSE ExistsFound(c, k)

\* C22: with a logger configured, every call of Get and every call of Exists
\* (the call of Get in GetOrFetch and GetOrNew included) invokes
\* LogCacheHitRatio exactly once, with the manager's name and with hit equal
\* to the found flag the call returns; Put, Delete and EndSession never
\* invoke it.
C22Step ==
    op.logger =>
        /\ \A k \in Keys :
              Get(1, k) \/ GetOrFetch(1, k) \/ GetOrNew(1, k) =>
                  hist'.log = LogCacheHitRatio(hist.log, op.name, FoundByGet(ctx[1], k))
        /\ \A k \in Keys :
              Exists(1, k) =>
                  hist'.log = LogCacheHitRatio(hist.log, op.name, FoundByExists(ctx[1], k))
        /\ \/ \E k \in Keys, v \in UserPtrs : Put(1, k, v)
           \/ \E k \in Keys : Delete(1, k)
           \/ EndSessionData(1)
           \/ EndSessionObjects(1)
           => /\ hist'.log.cacheHit = hist.log.cacheHit
              /\ hist'.log.cacheMiss = hist.log.cacheMiss

C22CacheHitRatio == [][C22Step]_vars

C22Witness ==
    /\ op.logger
    /\ hist.log.name = "reqcache"
    /\ hist.log.cacheHit >= 1
    /\ hist.log.cacheMiss >= 1
    /\ ctx[1] = NilCtx

\* The logger after m.NewObject(ctx) returned, c the session id the context
\* carries and a the instance: the call returns before p.get when it fails
\* to resolve its session.
NewObjectLog(c, a) ==
    IF fromContext(c).err # "nil" THEN hist.log
    ELSE LogObject(hist.log, objectPoolGet(ArenaFor(c, a)).hit)

\* C23, as stated: with a logger configured, every NewObject call, whatever
\* its context, invokes LogObjectPoolHitRatio exactly once.
C23EveryCall ==
    op.logger =>
        \A a \in (IF ctx[1] > 0 THEN NewObjectChoices(ctx[1]) ELSE {0}) :
            LogCalls(NewObjectLog(ctx[1], a)) = LogCalls(hist.log) + 1

\* C23: with a logger configured, every NewObject call that resolves its
\* session (the call in GetOrNew included) invokes LogObjectPoolHitRatio
\* exactly once, with the manager's name, hit = true exactly when the returned
\* pointer is an arena slot and hit = false when it is a fallback
\* allocation; a call that returns ErrNoSessionInContext does not invoke it.
C23Call ==
    op.logger =>
        IF ctx[1] > 0
        THEN \A a \in NewObjectChoices(ctx[1]) :
                 NewObjectLog(ctx[1], a) =
                     LogObjectPoolHitRatio(hist.log, op.name, NewObjectPtr(ctx[1], a)[1] = "slot")
        ELSE NewObjectLog(ctx[1], 0) = hist.log

C23Step ==
    op.logger /\ ctx[1] > 0 /\ (NewObject(1) \/ GetOrNewObject(1)) =>
        /\ hist'.log = NewObjectLog(ctx[1], objects'[ctx[1]])
        /\ LogCalls(hist'.log) = LogCalls(hist.log) + 1
        /\ hist'.log.cacheHit = hist.log.cacheHit
        /\ hist'.log.cacheMiss = hist.log.cacheMiss
        /\ hist'.log.objHit = hist.log.objHit + 1 <=> heapNext' = heapNext

C23ObjectPoolHitRatio == []C23Call /\ [][C23Step]_vars

C23Witness ==
    /\ op.logger
    /\ ctx[1] > 0
    /\ hist.log.name = "reqcache"
    /\ hist.log.objHit >= 1
    /\ hist.log.objMiss >= 1

\* The sessions whose map entry is instance i.
OwnersOf(map, i) == {s \in SessionIds : map[s] = i}

\* An instance is owned once at most: by one session's map entry, or by the
\* pool, once.
OwnedOnce(map, pool, n) ==
    \A i \in 1 .. n : Cardinality(OwnersOf(map, i)) + pool[i] <= 1

\* C24: in every reachable state each arena instance and each cache instance
\* has at most one owner: it is the value of at most one session's map entry,
\* and it is never at the same time in a map and in its pool, nor in the pool
\* twice.
C24OneOwner ==
    /\ OwnedOnce(data, dataPool, Len(lrus))
    /\ OwnedOnce(objects, objectsPool, Len(arenas))
    /\ \A s \in SessionIds : data[s] \in 0 .. Len(lrus) /\ objects[s] \in 0 .. Len(arenas)
    /\ \A i \in SessionIds : i > Len(lrus) => dataPool[i] = 0
    /\ \A i \in SessionIds : i > Len(arenas) => objectsPool[i] = 0

C24Witness ==
    /\ Len(lrus) = 2
    /\ Len(arenas) = 2
    /\ \E s \in SessionIds : data[s] # 0 /\ objects[s] # 0
    /\ \E i \in SessionIds : dataPool[i] = 1
    /\ \E i \in SessionIds : objectsPool[i] = 1
    /\ hist.purged # {}

\* C25: when several threads share one session, once EndSession for that
\* session has returned, no call of the session has started since, and every
\* call of the session has returned, neither map holds an entry for that
\* session.
C25SharedEnded ==
    \A s \in SessionIds :
        (hist.s[s].ended /\ \A t \in Threads : ctx[t] = s => pc[t] = "idle") =>
            data[s] = 0 /\ objects[s] = 0

\* The smaller of two numbers.
Min(a, b) == IF a <= b THEN a ELSE b

\* Every arena has capacity objSize and its cursor within 0 .. objSize, and
\* a session that made n NewObject calls has its cursor at min(n, objSize).
C26Range ==
    /\ \A i \in 1 .. Len(arenas) :
          /\ Len(arenas[i].data) = objSize
          /\ arenas[i].index \in 0 .. objSize
    /\ \A s \in SessionIds : (Live(s) /\ ~hist.s[s].endCalled) =>
          CursorOf(s) = Min(hist.s[s].nNew, objSize)

\* A step that leaves a session its arena does not lower the cursor, a
\* NewObject moves it by one at most, and a NewObject served by new(T) leaves
\* the cursor and every slot of the arena as they are.
C26Step ==
    \A s \in SessionIds :
        /\ (objects[s] # 0 /\ objects'[s] # 0) =>
              /\ objects'[s] = objects[s]
              /\ CursorOf(s)' >= CursorOf(s)
              /\ CursorOf(s)' <= CursorOf(s) + 1
        /\ (ctx[1] = s /\ (NewObject(1) \/ GetOrNewObject(1)) /\ heapNext' # heapNext) =>
              /\ objects[s] # 0
              /\ CursorOf(s) = objSize
              /\ arenas' = arenas
              /\ objects' = objects

\* C26: for every arena in every reachable state 0 <= cursor <= capacity;
\* within a session the cursor never decreases, and after n NewObject calls in
\* a session with capacity C the cursor equals min(n, C): a NewObject served
\* by fallback allocation leaves the cursor and all slots unchanged.
C26Cursor == []C26Range /\ [][C26Step]_vars

\* A session with capacity 1 has made three NewObject calls, two of them
\* served by new(T), and has written to its slot.
C26Witness ==
    /\ objSize = 1
    /\ ctx[1] > 0
    /\ ~hist.s[ctx[1]].endCalled
    /\ hist.s[ctx[1]].nNew = 3
    /\ heapNext = 2
    /\ CursorOf(ctx[1]) = 1
    /\ arenas[objects[ctx[1]]].data[1] = 1

\* The steps of thread 1 that call m.Put, and those that call m.NewObject.
PutCalled ==
    \/ \E k \in Keys, v \in UserPtrs : Put(1, k, v)
    \/ \E obj \in UserPtrs, ok \in BOOLEAN : GetOrFetchPut(1, obj, ok)
    \/ \E wrote \in BOOLEAN, ok \in BOOLEAN : GetOrNewPut(1, wrote, ok)

NewObjectCalled == NewObject(1) \/ GetOrNewObject(1)

\* C27, as stated: the first Put or Get of a session that has no cache-map
\* entry creates the entry.
C27PutOrGet ==
    [][\A k \in Keys :
          (ctx[1] > 0 /\ data[ctx[1]] = 0
              /\ (Get(1, k) \/ \E v \in UserPtrs : Put(1, k, v)))
          => data'[ctx[1]] # 0]_vars

\* An entry appears only in a call of NewObject (arena map) or of Put (cache
\* map) made with the session's context, and the instance comes out of the
\* pool; such a call of a session without entry creates it; the entry stays
\* bound to the instance until a call of EndSession removes it.
C27Step ==
    \A s \in SessionIds :
        /\ (objects[s] = 0 /\ objects'[s] # 0) =>
              /\ ctx[1] = s /\ NewObjectCalled
              /\ objects'[s] \in PoolGet(objectsPool, Len(arenas))
              /\ objectsPool' = PoolTake(objectsPool, objects'[s])
        /\ (data[s] = 0 /\ data'[s] # 0) =>
              /\ ctx[1] = s /\ PutCalled
              /\ data'[s] \in PoolGet(dataPool, Len(lrus))
              /\ dataPool' = PoolTake(dataPool, data'[s])
        /\ (ctx[1] = s /\ NewObjectCalled) => objects'[s] # 0
        /\ (ctx[1] = s /\ \E k \in Keys, v \in UserPtrs : Put(1, k, v)) => data'[s] # 0
        /\ (ctx[1] = s /\ \E k \in Keys : Get(1, k) \/ GetOrFetch(1, k) \/ GetOrNew(1, k)) =>
              data' = data
        /\ (objects[s] # 0 /\ objects'[s] # objects[s]) =>
              objects'[s] = 0 /\ ctx[1] = s /\ EndSessionObjects(1)
        /\ (data[s] # 0 /\ data'[s] # data[s]) =>
              data'[s] = 0 /\ ctx[1] = s /\ EndSessionData(1)

\* C27: for each session the arena-map entry is absent until that session's
\* first NewObject and the cache-map entry is absent until that session's
\* first Put (a Get creates none); the first such call creates the entry by
\* pulling an instance from the pool, and the entry then stays bound to that
\* same instance until EndSession removes it.
C27Lifecycle == [][C27Step]_vars

\* The session has looked a key up, with no cache entry before or after, and
\* holds an arena that went through the pool.
C27Witness ==
    /\ ctx[1] > 0
    /\ op.logger
    /\ hist.log.cacheMiss >= 1
    /\ data[ctx[1]] = 0
    /\ hist.s[ctx[1]].everPut = {}
    /\ hist.s[ctx[1]].endCalled
    /\ objects[ctx[1]] # 0

\* A step that changes the cache map, a cache or the caches' pool is no call
\* of NewObject; a step that changes the arena map, an arena or the arenas'
\* pool is no call of Put, Get, Exists or Delete; a step that changes the
\* session's cache-map entry, or anything of the caches when the session has
\* no entry, is no call of Exists or Delete.
C28Step ==
    \A t \in Threads :
        /\ cacheVars' # cacheVars => ~NewObject(t)
        /\ arenaVars' # arenaVars =>
              /\ ~\E k \in Keys, v \in UserPtrs : Put(t, k, v)
              /\ ~\E k \in Keys : Get(t, k) \/ Exists(t, k) \/ Delete(t, k)
        /\ (ctx[t] > 0 /\ (data'[ctx[t]] # data[ctx[t]]
                              \/ (data[ctx[t]] = 0 /\ cacheVars' # cacheVars))) =>
              ~\E k \in Keys : Exists(t, k) \/ Delete(t, k)

\* C28: the two maps are independent and read-only operations create
\* nothing: NewObject never adds or changes a cache-map entry,
\* Put/Get/Exists/Delete never add or change an arena-map entry, and Exists
\* and Delete on a session that has no cache entry leave the cache map
\* without an entry for that session.
C28Independent == [][C28Step]_vars

\* One session took objects and never stored; the other ended, was called
\* again, and has no entry in either map.
C28Witness ==
    \E t, u \in Threads :
        /\ ctx[t] > 0 /\ ctx[u] > 0 /\ ctx[t] # ctx[u]
        /\ objects[ctx[t]] # 0
        /\ data[ctx[t]] = 0
        /\ hist.s[ctx[t]].everPut = {}
        /\ pc[u] = "idle"
        /\ hist.s[ctx[u]].endCalled
        /\ ~hist.s[ctx[u]].ended
        /\ hist.s[ctx[u]].everPut # {}
        /\ data[ctx[u]] = 0
        /\ objects[ctx[u]] = 0

\* A session on which EndSession was never called has the cache entry of its
\* first Put and the arena entry of its first NewObject.
C29Kept ==
    \A s \in SessionIds : ~hist.s[s].endCalled =>
        /\ hist.s[s].everPut # {} => data[s] # 0
        /\ hist.s[s].nNew > 0 => objects[s] # 0

\* A step that removes or replaces a map entry of session s is the matching
\* critical section of EndSession, called with s's context.
C29Step ==
    \A s \in SessionIds :
        /\ (data[s] # 0 /\ data'[s] # data[s]) =>
              /\ data'[s] = 0
              /\ \E t \in Threads : ctx[t] = s /\ EndSessionData(t)
        /\ (objects[s] # 0 /\ objects'[s] # objects[s]) =>
              /\ objects'[s] = 0
              /\ \E t \in Threads : ctx[t] = s /\ EndSessionObjects(t)

\* C29: a map entry of session s is removed only by EndSession called with
\* s's context: no operation of another session (its EndSession included) and
\* no other operation of s removes it, so a session that never calls
\* EndSession keeps its arena and cache entries in every later state.
C29OnlyEndSession == []C29Kept /\ [][C29Step]_vars

\* One session has stored and taken objects and never ended, while the other
\* session has ended twice and its instances are in the pools.
C29Witness ==
    \E t, u \in Threads :
        /\ ctx[t] > 0 /\ ctx[u] > 0 /\ ctx[t] # ctx[u]
        /\ ~hist.s[ctx[t]].endCalled
        /\ data[ctx[t]] # 0
        /\ objects[ctx[t]] # 0
        /\ CacheOf(ctx[t]) # <<>>
        /\ hist.s[ctx[u]].ended
        /\ pc[u] = "EndSession"
        /\ \E i \in SessionIds : dataPool[i] = 1
        /\ \E i \in SessionIds : objectsPool[i] = 1

\* The session thread 1's context carries has ended and made no call since:
\* no call fails, the lookups find nothing, and what NewObject and Put would
\* attach is an arena with cursor 0 and zero slots and an empty cache.
C30Ended ==
    (ctx[1] > 0 /\ hist.s[ctx[1]].ended) =>
        LET s == ctx[1] IN
        /\ data[s] = 0 /\ objects[s] = 0
        /\ fromContext(s).err = "nil" /\ PutErr(s) = "nil" /\ GetErr(s) = "nil"
        /\ \A k \in KeysOne : ~GetFound(s, k) /\ ~ExistsFound(s, k) /\ ~DeleteRemoved(s, k)
        /\ \A k \in KeysOne : GetVal(s, k) = Nil
        /\ \A a \in NewObjectChoices(s) :
              /\ ArenaFor(s, a).index = 0
              /\ \A i \in 1 .. objSize : ArenaFor(s, a).data[i] = 0
              /\ NewObjectPtr(s, a) = SlotPtr(a, 0)
        /\ \A c \in PutChoices(s) : ~PutPanics(s, c) /\ cachePoolGet(c).items = <<>>

\* The calls made with the context of a session that has ended: NewObject
\* and Put attach an entry under the same id, the arena with its first slot
\* handed out and the cache holding the pair just stored; Get, Exists and
\* Delete leave the session without entry; no call ends in a panic.
C30Step ==
    (ctx[1] > 0 /\ pc[1] = "idle" /\ hist.s[ctx[1]].endCalled) =>
        LET s == ctx[1] IN
        /\ pc'[1] # "panic"
        /\ (objects[s] = 0 /\ NewObject(1)) =>
              /\ objects'[s] # 0
              /\ CursorOf(s)' = 1
              /\ heapNext' = heapNext
              /\ \A i \in 1 .. objSize : arenas'[objects'[s]].data[i] = 0
        /\ \A k \in KeysOne, v \in UserPtrsOne :
              (data[s] = 0 /\ Put(1, k, v)) =>
                  /\ data'[s] # 0
                  /\ CacheOf(s)' = <<(<<k, v>>)>>
        /\ \A k \in KeysOne :
              (data[s] = 0 /\ (Get(1, k) \/ Exists(1, k) \/ Delete(1, k))) =>
                  data'[s] = 0 /\ UNCHANGED arenaVars

C31OneLock == \A t \in Threads : ~(HoldsData(t) /\ HoldsObjects(t))

\* Every call that started returns.
C31Returns == \A t \in Threads : (pc[t] # "idle") ~> (pc[t] = "idle")

C32NoLockInCallback ==
    \A t \in Threads : pc[t] \in InCallback => ~HoldsData(t) /\ ~HoldsObjects(t)

\* C33: the cache-map lock is a reader/writer lock: the critical section of
\* a Put, a Delete or the cache phase of EndSession never overlaps with the
\* critical section of any other cache operation, and the arena-map critical
\* sections of NewObject and EndSession never overlap each other; two
\* Get/Exists calls can be inside their critical sections at the same time
\* (the state C33Witness).
C33Exclusive ==
    \A t, u \in Threads : t # u =>
        /\ pc[t] \in WriteData => ~HoldsData(u)
        /\ ~(HoldsObjects(t) /\ HoldsObjects(u))

\* A Get and an Exists are inside their critical sections at the same time,
\* on a cache that holds the key.
C33Witness ==
    /\ pc[1] = "Get.cs"
    /\ pc[2] = "Exists.cs"
    /\ GetFound(ctx[1], loc[1].key)

\* The content of session s's cache after Get(k) and after Exists(k): d.Get
\* moves the entry found to the front, d.Contains moves nothing.
CacheAfterGet(s, k) == IF data[s] = 0 THEN <<>> ELSE LruGet(lrus[data[s]], k).items

CacheAfterExists(s, k) == CacheOf(s)

\* The keys a cache with content e and capacity cacheSize holds after
\* Put(k, v).
KeysAfterPut(e, k, v) ==
    LET c == LruAdd([items |-> e, size |-> cacheSize], k, v).items
    IN  {c[i][1] : i \in 1 .. Len(c)}

\* C34, as stated: Exists(k) returns the found flag Get(k) would return, and
\* replacing a Get(k) by an Exists(k) changes the result of no later
\* operation of the session: a later Put leaves the same keys in the cache.
C34Replaceable ==
    (ctx[1] > 0) =>
        \A k \in KeysOne :
            /\ ExistsFound(ctx[1], k) = GetFound(ctx[1], k)
            /\ \A k2 \in KeysOne :
                  KeysAfterPut(CacheAfterExists(ctx[1], k), k2, UserPtr(1))
                      = KeysAfterPut(CacheAfterGet(ctx[1], k), k2, UserPtr(1))

\* Exists(k) returns the found flag Get(k) would return, and the cache holds
\* the same keys with the same values after either call.
C34Flag ==
    (ctx[1] > 0) =>
        \A k \in KeysOne :
            LET g == CacheAfterGet(ctx[1], k)
                e == CacheAfterExists(ctx[1], k)
            IN  /\ ExistsFound(ctx[1], k) = GetFound(ctx[1], k)
                /\ {g[i] : i \in 1 .. Len(g)} = {e[i] : i \in 1 .. Len(e)}

\* Exists leaves the cache as it is, order included; Get leaves it with the
\* entry found at the front.
C34Step ==
    \A k \in KeysOne :
        /\ Exists(1, k) => UNCHANGED cacheVars
        /\ (ctx[1] > 0 /\ Get(1, k)) =>
              /\ CacheOf(ctx[1])' = CacheAfterGet(ctx[1], k)
              /\ GetFound(ctx[1], k) => CacheOf(ctx[1])'[1][1] = k

\* C34: Exists(k) returns the found flag Get(k) would return in the same
\* state and, like Get, changes neither the keys nor the values stored; it
\* does not move k to the front as Get does.
C34Exists == []C34Flag /\ [][C34Step]_vars

\* The cache is full, and a Put of a third key evicts k after Exists(k) and
\* another key after Get(k).
C34Witness ==
    /\ ctx[1] > 0
    /\ cacheSize = 2
    /\ Len(CacheOf(ctx[1])) = 2
    /\ \E k, k2 \in KeysOne :
          /\ ExistsFound(ctx[1], k)
          /\ ~ExistsFound(ctx[1], k2)
          /\ k \notin KeysAfterPut(CacheAfterExists(ctx[1], k), k2, UserPtr(1))
          /\ k \in KeysAfterPut(CacheAfterGet(ctx[1], k), k2, UserPtr(1))

\* A Put on a key the session's cache holds: afterwards Get finds the key
\* with the pointer just stored, the cache holds the same keys, as many
\* entries as before, and the other keys have the pointers they had.
C35Step ==
    \A k \in KeysOne, v \in UserPtrsOne :
        (ctx[1] > 0 /\ GetFound(ctx[1], k) /\ Put(1, k, v)) =>
            /\ GetFound(ctx[1], k)'
            /\ GetVal(ctx[1], k)' = v
            /\ CacheOf(ctx[1])'[1] = <<k, v>>
            /\ Len(CacheOf(ctx[1])') = Len(CacheOf(ctx[1]))
            /\ CacheKeys(ctx[1])' = CacheKeys(ctx[1])
            /\ \A k2 \in CacheKeys(ctx[1]) \ {k} : GetVal(ctx[1], k2)' = GetVal(ctx[1], k2)

\* C35: Put on a key already present in the session's cache replaces its
\* value (a following Get returns the new pointer), keeps the number of
\* entries unchanged and evicts nothing, even when the cache is at capacity.
C35Overwrite == [][C35Step]_vars

\* The cache is at capacity 2, no third key was ever stored, and the two
\* keys hold different pointers, the older entry the one a Put can replace.
C35Witness ==
    /\ ctx[1] > 0
    /\ cacheSize = 2
    /\ Len(CacheOf(ctx[1])) = 2
    /\ Cardinality(hist.s[ctx[1]].everPut) = 2
    /\ CacheOf(ctx[1])[1][2] = UserPtr(2)
    /\ CacheOf(ctx[1])[2][2] = UserPtr(1)

\* -------------------------------------------------------------------- C36
\* While prepare runs, the object handed to it is the slot just below the
\* cursor of the session's arena, or, the arena being exhausted, an object
\* of its own.
C36Taken ==
    pc[1] = "prepare" =>
        /\ objects[ctx[1]] # 0
        /\ IF loc[1].val[1] = "slot"
           THEN loc[1].val = SlotPtr(objects[ctx[1]], CursorOf(ctx[1]) - 1)
           ELSE CursorOf(ctx[1]) = objSize

\* The NewObject of GetOrNew advances the cursor by one unless the arena is
\* exhausted; a prepare that fails leaves the cursor, the session's arena
\* and the cache as they are, and the slot with what prepare wrote.
C36Step ==
    /\ GetOrNewObject(1) =>
          /\ CursorOf(ctx[1])' = Min(CursorOf(ctx[1]) + 1, objSize)
          /\ cacheVars' = cacheVars
    /\ \A wrote \in BOOLEAN :
          GetOrNewPut(1, wrote, FALSE) =>
              /\ cacheVars' = cacheVars
              /\ objects' = objects
              /\ CursorOf(ctx[1])' = CursorOf(ctx[1])
              /\ LET p == loc[1].val
                     was == Deref(ctx[1], objects[ctx[1]], p)
                 IN  p[1] = "slot" =>
                        /\ arenas'[p[2]].data[p[3] + 1] = IF wrote THEN 1 ELSE was
                        /\ arenas' = WriteTo(p, IF wrote THEN 1 ELSE was)

\* C36: when prepare fails in GetOrNew the arena slot taken for the object
\* is not given back: the call still advances the session's arena cursor by
\* one (unless the arena was already exhausted) and the slot keeps whatever
\* prepare wrote, while the cache stays unchanged.
C36PrepareFails == []C36Taken /\ [][C36Step]_vars

\* A callback just failed in a session that never stored a key and took one
\* object, which was written to: the cursor is past it.
C36Witness ==
    /\ ctx[1] > 0
    /\ pc[1] = "idle"
    /\ hist.s[ctx[1]].failed
    /\ hist.s[ctx[1]].nNew = 1
    /\ hist.s[ctx[1]].everPut = {}
    /\ data[ctx[1]] = 0
    /\ objects[ctx[1]] # 0
    /\ CursorOf(ctx[1]) = 1
    /\ arenas[objects[ctx[1]]].data[1] = 1

\* -------------------------------------------------------------------- C37
\* The arena a Get(name, size, logger) returns has size slots, all zero, and
\* index 0.
C37Step ==
    \A s \in SessionIds, size \in 0 .. MaxSize :
        SyncPoolGet(s, size) =>
            LET o == arenas'[objects'[s]]
            IN  /\ Len(o.data) = size
                /\ o.index = 0
                /\ \A i \in 1 .. Len(o.data) : o.data[i] = 0

\* The slots not handed out yet of an arena taken from the pool are zero:
\* what pool.get returns next is a zero object.
C37Zero ==
    \A s \in SessionIds :
        objects[s] # 0 =>
            LET o == arenas[objects[s]]
            IN  \A i \in o.index + 1 .. Len(o.data) : o.data[i] = 0

\* C37: for every sequence of Get(size), get and Put on the arena pool with
\* varying sizes, the arena Get returns has exactly size slots, index 0 and
\* every slot zero, whether its backing array was reused (capacity at least
\* size), replaced by a larger one, or the arena newly constructed.
C37Get == []C37Zero /\ [][C37Step]_vars

\* A holder has just got an arena with one slot, zero, on a backing array of
\* two whose second element still has what an earlier holder wrote.
C37Witness ==
    \E s \in SessionIds :
        /\ objects[s] # 0
        /\ arenas[objects[s]].index = 0
        /\ arenas[objects[s]].data = <<0>>
        /\ arenas[objects[s]].spare = <<1>>
====
